---------------------------- MODULE Spec2Model ----------------------------
(***************************************************************************)
(* Log analysis and verdict aggregation of the simulation stress tests:    *)
(*   - StressAnalyzer (simulation/scripts/analysis/stress_analyzer.py):    *)
(*     parses JSONL files, segments the events into scenario runs, folds   *)
(*     assertions and threshold checks into each run's verdict;            *)
(*   - PQAnalyzer (simulation/scripts/analysis/pq_analyzer.py): aggregates *)
(*     counters and latency samples, evaluates the threshold policy and    *)
(*     produces one report.                                                *)
(* JSON values are tagged records, dictionaries are insertion-ordered      *)
(* sequences of key/value pairs, as in Python.                             *)
(***************************************************************************)
EXTENDS Integers, Sequences, FiniteSets, TLC

VARIABLES
    \* ---- StressAnalyzer ----
    threshold_config,   \* StressAnalyzer.threshold_config (None or a policy)
    scenarios,          \* StressAnalyzer.scenarios: name -> list of runs
    lines,              \* the lines of the file being processed
    entries,            \* parse_log_file's result, analyze_entries' argument
    aborted,            \* parse_log_file left its loop through "except Exception"
    pos,                \* analyze_entries: index of the next entry of the loop
    current_scenario,   \* analyze_entries: local current_scenario
    scenario_analysis,  \* analyze_entries: local scenario_analysis (open run)
    nfiles,             \* analyze_files: number of files processed so far
    pc,                 \* position of main()/analyze_files
    written,            \* main(): the report file was written
    exit_code,          \* the status main() hands to sys.exit
    \* ---- PQAnalyzer ----
    pq,                 \* the PQAnalyzer object
    pqFiles,            \* the input files of the run, in glob order
    pqFile,             \* index of the file being parsed
    pqPos,              \* parse_log_file: index of the next line
    pqPc,               \* position of main()
    report,             \* generate_report's result
    pqExit,             \* the status main() hands to sys.exit
    \* ---- OperationMetrics.calculate_stats on its own ----
    latencies,          \* OperationMetrics.latencies
    stats               \* the LatencyMetrics computed from them

stressVars == <<threshold_config, scenarios, lines, entries, aborted, pos,
                current_scenario, scenario_analysis, nfiles, pc, written,
                exit_code>>
pqVars == <<pq, pqFiles, pqFile, pqPos, pqPc, report, pqExit>>
statVars == <<latencies, stats>>
vars == <<stressVars, pqVars, statVars>>

---------------------------------------------------------------------------
(* Bounds of the model.                                                    *)
MaxLines == 4            \* lines of a file (segmentation, parsing)
MaxVerdictLines == 3     \* lines of a file (verdicts)
MaxPQLines == 3          \* lines of a PQ log file
MaxMergeLines == 2       \* lines of each of the two files of a split
MaxExitLines == 2        \* lines of a file (exit status)
MaxCheckLines == 3       \* lines of a PQ log file (threshold checks)
MaxIdentityLines == 1    \* lines of a file (scenario identity)
MaxSummaryLines == 2     \* lines of each of two files (summary)
MaxPolicyLines == 2      \* lines of a file (policy loading)
MaxSamples == 4          \* latency samples of a list
MaxLatency == 3          \* largest latency sample

---------------------------------------------------------------------------
(* JSON / Python values.                                                   *)
None == [t |-> "none"]
Str(s) == [t |-> "str", s |-> s]
Num(n) == [t |-> "num", n |-> n]
Bool(b) == [t |-> "bool", b |-> b]

\* Python truthiness of a value ("if x:", "x or y").
Truthy(v) ==
    CASE v.t = "none" -> FALSE
      [] v.t = "str"  -> v.s # ""
      [] v.t = "num"  -> v.n # 0
      [] v.t = "bool" -> v.b

\* isinstance(value, (int, float)); bool is a subclass of int.
IsNumeric(v) == v.t \in {"num", "bool"}

\* The number a numeric value compares as.
NumOf(v) == IF v.t = "bool" THEN (IF v.b THEN 1 ELSE 0) ELSE v.n

\* value == True
EqTrue(v) == IsNumeric(v) /\ NumOf(v) = 1

\* "a or b"
PyOr(a, b) == IF Truthy(a) THEN a ELSE b

(* Dictionaries: sequences of [k, v] pairs in insertion order.             *)
\* The quotient of a true division, kept exact as num/den.
Rat(n, d) == [num |-> n, den |-> d]
RatLeq(a, b) == a.num * b.den <= b.num * a.den

EmptyDict == <<>>
DictKeys(d) == {d[i].k : i \in DOMAIN d}
DictHas(d, k) == k \in DictKeys(d)
DictGet(d, k) == d[CHOOSE i \in DOMAIN d : d[i].k = k].v
DictGetOr(d, k, default) == IF DictHas(d, k) THEN DictGet(d, k) ELSE default
DictPut(d, k, v) ==
    IF DictHas(d, k)
    THEN [i \in DOMAIN d |-> IF d[i].k = k THEN [k |-> k, v |-> v] ELSE d[i]]
    ELSE Append(d, [k |-> k, v |-> v])
KV(k, v) == [k |-> k, v |-> v]

\* All sequences over S of length at most n.
SeqsUpTo(S, n) == UNION {[1..m -> S] : m \in 0..n}

---------------------------------------------------------------------------
(* LogEntry.                                                               *)
(* A message is abstracted to what the analyzer reads in it: the words it  *)
(* searches (lower-cased) and the identifier the pattern                   *)
(* scenario[:\s]+([a-zA-Z0-9_-]+) captures ("" when it does not match).    *)
Msg(words, scen) == [words |-> words, scen |-> scen]
NoMsg == Msg({}, "")

\* Targets that contain the substring "scenario".
ScenarioTargets == {"scenario_runner"}

\* LogEntry.__init__ on a JSON object.
LogEntry(raw) ==
    [timestamp |-> DictGetOr(raw, "timestamp", Str("")),
     level     |-> DictGetOr(raw, "level", "UNKNOWN"),
     target    |-> DictGetOr(raw, "target", ""),
     message   |-> DictGetOr(raw, "message", NoMsg),
     fields    |-> DictGetOr(raw, "fields", EmptyDict),
     span      |-> DictGetOr(raw, "span", EmptyDict)]

get_field(entry, key, default) ==
    IF DictHas(entry.fields, key) THEN DictGet(entry.fields, key)
    ELSE IF DictHas(entry.span, key) THEN DictGet(entry.span, key)
    ELSE default

\* A run that is born passed.
ScenarioAnalysisBornPassed(name) ==
    [name         |-> name,
     passed       |-> "True",
     start_time   |-> None,
     end_time     |-> None,
     duration_ms  |-> None,
     metrics      |-> EmptyDict,
     assertions   |-> <<>>,
     errors       |-> <<>>,
     warnings     |-> <<>>,
     event_counts |-> EmptyDict,
     trace_ids    |-> {}]

\* ScenarioAnalysis.__init__
ScenarioAnalysis(name) ==
    [name         |-> name,
     passed       |-> "None",
     start_time   |-> None,
     end_time     |-> None,
     duration_ms  |-> None,
     metrics      |-> EmptyDict,
     assertions   |-> <<>>,
     errors       |-> <<>>,
     warnings     |-> <<>>,
     event_counts |-> EmptyDict,
     trace_ids    |-> {}]

---------------------------------------------------------------------------
(* Lines of a JSONL file, by what json.loads makes of them.                *)
BlankLine == [kind |-> "blank"]
BadJsonLine == [kind |-> "badjson"]         \* json.loads raises JSONDecodeError
NonObjectLine == [kind |-> "nonobject"]     \* valid JSON, not an object: 42, [1], "x"
ObjectLine(raw) == [kind |-> "object", data |-> raw]

\* StressAnalyzer.parse_log_file from line i on, acc the entries so far:
\* a JSONDecodeError skips the line; any other exception (LogEntry on a value
\* without .get) leaves the loop through the outer "except Exception".
RECURSIVE ParseFrom(_, _, _)
ParseFrom(ls, i, acc) ==
    IF i > Len(ls) THEN [entries |-> acc, aborted |-> FALSE]
    ELSE CASE ls[i].kind = "blank"     -> ParseFrom(ls, i + 1, acc)
           [] ls[i].kind = "badjson"   -> ParseFrom(ls, i + 1, acc)
           [] ls[i].kind = "nonobject" -> [entries |-> acc, aborted |-> TRUE]
           [] ls[i].kind = "object"    ->
                ParseFrom(ls, i + 1, Append(acc, LogEntry(ls[i].data)))

parse_log_file(ls) == ParseFrom(ls, 1, <<>>)

extract_scenario_name(entry) ==
    LET scenario == get_field(entry, "scenario", None) IN
    IF Truthy(scenario) THEN scenario
    ELSE IF "scenario" \in entry.message.words /\ entry.message.scen # ""
         THEN Str(entry.message.scen)
    ELSE IF entry.target \in ScenarioTargets
         THEN PyOr(get_field(entry, "name", None), Str("unknown"))
    ELSE None

\* A collection keyed by name that keeps one run per name (the last one).
AppendRunMergingByName(scs, name, run) ==
    IF name \in DOMAIN scs
    THEN [scs EXCEPT ![name] = <<run>>]
    ELSE scs @@ (name :> <<run>>)

\* self.scenarios[name].append(run), scenarios being a defaultdict(list).
\* An append that stores the run object twice.
AppendRunTwice(scs, name, run) ==
    IF name \in DOMAIN scs
    THEN [scs EXCEPT ![name] = Append(Append(@, run), run)]
    ELSE scs @@ (name :> <<run, run>>)

AppendRun(scs, name, run) ==
    IF name \in DOMAIN scs
    THEN [scs EXCEPT ![name] = Append(@, run)]
    ELSE scs @@ (name :> <<run>>)

\* The sample an error or warning keeps of its entry.
Flagged(entry) ==
    [timestamp |-> entry.timestamp, message |-> entry.message,
     target |-> entry.target]

\* "for key, value in entry.fields.items(): if isinstance(value, (int, float))"
RECURSIVE ExtractMetrics(_, _, _)
ExtractMetrics(metrics, fields, i) ==
    IF i > Len(fields) THEN metrics
    ELSE ExtractMetrics(
            IF IsNumeric(fields[i].v)
            THEN DictPut(metrics, fields[i].k, fields[i].v) ELSE metrics,
            fields, i + 1)

IsCompleted(entry) ==
    \/ "completed" \in entry.message.words
    \/ get_field(entry, "status", None) = Str("completed")

IsAssertion(entry) ==
    \/ "assertion" \in entry.message.words
    \/ Truthy(get_field(entry, "assertion", None))

AssertionPassed(entry) ==
    \/ "passed" \in entry.message.words
    \/ EqTrue(get_field(entry, "passed", None))

AssertionResult(entry) ==
    [message  |-> entry.message,
     passed   |-> AssertionPassed(entry),
     expected |-> get_field(entry, "expected", None),
     actual   |-> get_field(entry, "actual", None)]

\* A verdict that follows the last assertion seen.
VerdictOfLastAssertion(passed, ok) == IF ok THEN "True" ELSE "False"

\* "Update pass/fail status" after one extracted assertion.
VerdictAfterAssertion(passed, ok) ==
    IF ~ok THEN "False"
    ELSE IF passed = "None" THEN "True"
    ELSE passed

\* The body of "if scenario_analysis:" for one entry.
UpdateRun(sa, entry) ==
    LET trace_id == get_field(entry, "trace_id", None)
        event_type == PyOr(get_field(entry, "event_type", None),
                           get_field(entry, "event", None))
        duration == PyOr(get_field(entry, "duration_ms", None),
                         get_field(entry, "duration", None))
        s1 == [sa EXCEPT
                !.end_time = entry.timestamp,
                !.trace_ids = IF Truthy(trace_id) THEN @ \cup {trace_id} ELSE @,
                !.event_counts =
                    IF Truthy(event_type)
                    THEN DictPut(@, event_type, DictGetOr(@, event_type, 0) + 1)
                    ELSE @,
                !.errors = IF entry.level = "ERROR"
                           THEN Append(@, Flagged(entry)) ELSE @,
                !.warnings = IF entry.level # "ERROR" /\ entry.level = "WARN"
                             THEN Append(@, Flagged(entry)) ELSE @]
        s2 == IF IsCompleted(entry)
              THEN [s1 EXCEPT
                      !.metrics = ExtractMetrics(@, entry.fields, 1),
                      !.duration_ms = IF Truthy(duration) THEN duration ELSE @]
              ELSE s1
    IN  IF IsAssertion(entry)
        THEN [s2 EXCEPT
                !.assertions = Append(@, AssertionResult(entry)),
                !.passed = VerdictAfterAssertion(@, AssertionPassed(entry))]
        ELSE s2

\* A check that looks at the minimum only.
check_metric_min_only(cfg, metric_name, value) ==
    IF ~DictHas(cfg, metric_name) THEN [passed |-> TRUE, message |-> None]
    ELSE LET threshold == DictGet(cfg, metric_name) IN
         IF DictHas(threshold, "min") /\ NumOf(value) < DictGet(threshold, "min")
         THEN [passed |-> FALSE,
               message |-> [metric |-> metric_name, value |-> value,
                            below |-> DictGet(threshold, "min")]]
         ELSE [passed |-> TRUE, message |-> None]

(* ThresholdConfig: thresholds is a dictionary metric name -> dictionary   *)
(* with an optional "min" and an optional "max".                           *)
check_metric(cfg, metric_name, value) ==
    IF ~DictHas(cfg, metric_name) THEN [passed |-> TRUE, message |-> None]
    ELSE LET threshold == DictGet(cfg, metric_name) IN
         IF DictHas(threshold, "min") /\ NumOf(value) < DictGet(threshold, "min")
         THEN [passed |-> FALSE,
               message |-> [metric |-> metric_name, value |-> value,
                            below |-> DictGet(threshold, "min")]]
         ELSE IF DictHas(threshold, "max") /\ NumOf(value) > DictGet(threshold, "max")
         THEN [passed |-> FALSE,
               message |-> [metric |-> metric_name, value |-> value,
                            above |-> DictGet(threshold, "max")]]
         ELSE [passed |-> TRUE, message |-> None]

\* threshold_failures of one run, in the order of analysis.metrics.items().
RECURSIVE ThresholdFailures(_, _, _)
ThresholdFailures(cfg, metrics, i) ==
    IF i > Len(metrics) THEN <<>>
    ELSE LET r == check_metric(cfg, metrics[i].k, metrics[i].v) IN
         (IF r.passed THEN <<>> ELSE <<r.message>>)
            \o ThresholdFailures(cfg, metrics, i + 1)

\* apply_thresholds on one run.
ApplyToRun(cfg, analysis) ==
    LET threshold_failures == ThresholdFailures(cfg, analysis.metrics, 1) IN
    IF threshold_failures = <<>> THEN analysis
    ELSE [analysis EXCEPT
            !.passed = "False",
            !.assertions = Append(@, [message  |-> "Threshold checks",
                                      passed   |-> FALSE,
                                      failures |-> threshold_failures])]

\* apply_thresholds: nothing without a threshold_config.
apply_thresholds(cfg, scs) ==
    IF cfg = None THEN scs
    ELSE [n \in DOMAIN scs |->
            [i \in DOMAIN scs[n] |-> ApplyToRun(cfg.thresholds, scs[n][i])]]

\* The runs of the collection, as (name, index) pairs.
RunIds(scs) == UNION {{<<n, i>> : i \in DOMAIN scs[n]} : n \in DOMAIN scs}
RunAt(scs, id) == scs[id[1]][id[2]]

\* A summary that counts as failed every run that has not passed.
generate_summary_failed_unless_passed(scs) ==
    LET total_scenarios == Cardinality(RunIds(scs))
        total_passed == Cardinality({id \in RunIds(scs) : RunAt(scs, id).passed = "True"})
        total_failed == total_scenarios - total_passed
    IN  [total_scenarios |-> total_scenarios,
         unique_scenario_types |-> Cardinality(DOMAIN scs),
         passed  |-> total_passed,
         failed  |-> total_failed,
         unknown |-> total_scenarios - total_passed - total_failed,
         pass_rate |-> IF total_scenarios > 0
                       THEN Rat(total_passed * 100, total_scenarios)
                       ELSE Rat(0, 1)]

\* StressAnalyzer.generate_summary (analysis_timestamp, the clock, left out).
generate_summary(scs) ==
    LET total_scenarios == Cardinality(RunIds(scs))
        total_passed == Cardinality({id \in RunIds(scs) : RunAt(scs, id).passed = "True"})
        total_failed == Cardinality({id \in RunIds(scs) : RunAt(scs, id).passed = "False"})
    IN  [total_scenarios |-> total_scenarios,
         unique_scenario_types |-> Cardinality(DOMAIN scs),
         passed  |-> total_passed,
         failed  |-> total_failed,
         unknown |-> total_scenarios - total_passed - total_failed,
         pass_rate |-> IF total_scenarios > 0
                       THEN Rat(total_passed * 100, total_scenarios)
                       ELSE Rat(0, 1)]

\* An exit status that is 0 only when there are runs and all of them passed.
StressExitCodeAllPassed(scs, write_ok) ==
    IF ~write_ok THEN 1
    ELSE IF generate_summary(scs).total_scenarios > 0
            /\ generate_summary(scs).passed = generate_summary(scs).total_scenarios
         THEN 0 ELSE 1

\* "sys.exit(1 if summary['failed'] > 0 else 0)", or 1 when writing the
\* report raised.
StressExitCode(scs, write_ok) ==
    IF ~write_ok THEN 1
    ELSE IF generate_summary(scs).failed > 0 THEN 1 ELSE 0

\* StressAnalyzer.get_recommendations. Each entry is the scenario it names
\* and its text; the entries are a set here, the order of the list (that of
\* the names in self.scenarios) is left out.
AllTestsPassed ==
    [scenario |-> None, text |-> "All tests passed! No recommendations at this time."]
ScenarioRecommendations(name, analyses) ==
    LET failed == SelectSeq(analyses, LAMBDA a : a.passed = "False")
        high_error_rate == \E i \in DOMAIN failed : Len(failed[i].errors) > 10
        low_delivery_rate ==
            \E i \in DOMAIN failed :
                NumOf(DictGetOr(failed[i].metrics, "delivery_rate", Num(100))) < 90
        high_latency ==
            \E i \in DOMAIN failed :
                NumOf(DictGetOr(failed[i].metrics, "avg_latency_ms", Num(0))) > 1000
    IN  IF failed = <<>> THEN {}
        ELSE (IF high_error_rate
              THEN {[scenario |-> name, text |-> "High error rate detected."]}
              ELSE {})
             \cup (IF low_delivery_rate
                   THEN {[scenario |-> name, text |-> "Low message delivery rate."]}
                   ELSE {})
             \cup (IF high_latency
                   THEN {[scenario |-> name, text |-> "High latency detected."]}
                   ELSE {})
get_recommendations(scs) ==
    LET recommendations ==
            UNION {ScenarioRecommendations(n, scs[n]) : n \in DOMAIN scs}
    IN  IF recommendations = {} THEN {AllTestsPassed} ELSE recommendations

\* ThresholdConfig.__init__
ThresholdConfig(config) == [thresholds |-> DictGetOr(config, "thresholds", EmptyDict)]

---------------------------------------------------------------------------
(* Inputs of the StressAnalyzer runs.                                      *)
RawScenarioA == <<KV("timestamp", Num(1)), KV("level", "INFO"),
                  KV("fields", <<KV("scenario", Str("A"))>>)>>
RawScenarioB == <<KV("timestamp", Num(2)), KV("target", "sim"),
                  KV("message", Msg({"scenario"}, "B"))>>
RawUnnamed == <<KV("timestamp", Num(3)), KV("level", "WARN")>>
RawAssertPass == <<KV("timestamp", Num(2)),
                   KV("message", Msg({"assertion", "passed"}, ""))>>
RawAssertFail == <<KV("timestamp", Num(2)), KV("level", "ERROR"),
                   KV("message", Msg({"assertion"}, ""))>>
RawCompleted(metric, value) ==
    <<KV("timestamp", Num(3)), KV("message", Msg({"completed"}, "")),
      KV("fields", <<KV(metric, Num(value)), KV("status", Str("completed"))>>)>>

\* Segmentation: named and unnamed events.
SegLines == {ObjectLine(RawScenarioA), ObjectLine(RawScenarioB),
             ObjectLine(RawUnnamed)}

\* Verdicts: assertions and completion metrics inside runs.
VerdictLines ==
    {ObjectLine(RawScenarioA), ObjectLine(RawScenarioB),
     ObjectLine(RawAssertPass), ObjectLine(RawAssertFail)}
    \cup {ObjectLine(RawCompleted("delivery_rate", v)) : v \in {1, 2, 4}}
    \cup {ObjectLine(RawCompleted("retries", 1))}

\* Parsing: well-formed and malformed lines.
ParseLines == {ObjectLine(RawScenarioA), ObjectLine(RawUnnamed),
               BlankLine, BadJsonLine, NonObjectLine}

\* Scenario identity: events that carry a name in their fields, their span,
\* their message, or only a scenario target, in every combination.
FieldsChoices == {EmptyDict,
                  <<KV("scenario", Str(""))>>,
                  <<KV("scenario", Str("F"))>>,
                  <<KV("name", Str("N"))>>,
                  <<KV("scenario", Str("")), KV("name", Str("N"))>>}
SpanChoices == {EmptyDict, <<KV("scenario", Str("S"))>>}
MessageChoices == {NoMsg, Msg({"scenario"}, "M"), Msg({"scenario"}, "")}
TargetChoices == {"sim", "scenario_runner"}
RawIdentity(f, sp, m, t) ==
    <<KV("timestamp", Num(1)), KV("target", t), KV("message", m),
      KV("fields", f), KV("span", sp)>>
IdentityLines ==
    {ObjectLine(RawIdentity(f, sp, m, t)) :
        f \in FieldsChoices, sp \in SpanChoices, m \in MessageChoices,
        t \in TargetChoices}

\* Summary: runs that pass, fail and stay unknown.
SummaryRunLines == {ObjectLine(RawScenarioA), ObjectLine(RawScenarioB),
                    ObjectLine(RawAssertPass), ObjectLine(RawAssertFail)}

\* Threshold policies: none (no --thresholds), or a file's content.
PolicyMinMax == <<KV("thresholds",
                     <<KV("delivery_rate", <<KV("min", 2), KV("max", 3)>>)>>)>>
PolicyMax == <<KV("thresholds", <<KV("delivery_rate", <<KV("max", 3)>>)>>)>>
Policies == {None, ThresholdConfig(PolicyMinMax), ThresholdConfig(PolicyMax)}

---------------------------------------------------------------------------
(* StressAnalyzer: main() and analyze_files.                               *)
StressIdle ==
    /\ threshold_config = None
    /\ scenarios = <<>>
    /\ lines = <<>>
    /\ entries = <<>>
    /\ aborted = FALSE
    /\ pos = 1
    /\ current_scenario = None
    /\ scenario_analysis = None
    /\ nfiles = 0
    /\ pc = "off"
    /\ written = FALSE
    /\ exit_code = -1

\* main() up to the call of analyze_files: the policy is loaded, the
\* analyzer constructed.
StressInit ==
    /\ threshold_config \in Policies
    /\ scenarios = <<>>
    /\ lines = <<>>
    /\ entries = <<>>
    /\ aborted = FALSE
    /\ pos = 1
    /\ current_scenario = None
    /\ scenario_analysis = None
    /\ nfiles = 0
    /\ pc = "files"
    /\ written = FALSE
    /\ exit_code = -1

\* analyze_files' loop takes the next file: parse_log_file, then the start
\* of analyze_entries (no run open).
ParseLogFile(L, maxLines, maxFiles) ==
    /\ pc = "files"
    /\ nfiles < maxFiles
    /\ \E ls \in SeqsUpTo(L, maxLines) :
          /\ lines' = ls
          /\ entries' = parse_log_file(ls).entries
          /\ aborted' = parse_log_file(ls).aborted
    /\ pos' = 1
    /\ current_scenario' = None
    /\ scenario_analysis' = None
    /\ pc' = "entries"
    /\ UNCHANGED <<threshold_config, scenarios, nfiles, written, exit_code>>
    /\ UNCHANGED <<pqVars, statVars>>

\* One iteration of analyze_entries' loop.
AnalyzeEntry ==
    /\ pc = "entries"
    /\ pos <= Len(entries)
    /\ LET entry == entries[pos]
           scenario_name == extract_scenario_name(entry)
           starts == Truthy(scenario_name) /\ scenario_name # current_scenario
           opened == IF starts
                     THEN [ScenarioAnalysis(scenario_name)
                              EXCEPT !.start_time = entry.timestamp]
                     ELSE scenario_analysis
       IN  /\ scenarios' = IF starts /\ scenario_analysis # None
                           THEN AppendRun(scenarios, current_scenario,
                                          scenario_analysis)
                           ELSE scenarios
           /\ current_scenario' = IF starts THEN scenario_name
                                  ELSE current_scenario
           /\ scenario_analysis' = IF opened # None
                                   THEN UpdateRun(opened, entry) ELSE opened
    /\ pos' = pos + 1
    /\ UNCHANGED <<threshold_config, lines, entries, aborted, nfiles, pc,
                   written, exit_code>>
    /\ UNCHANGED <<pqVars, statVars>>

\* An end of analyze_entries that forgets the run still open.
FinishEntriesDroppingOpenRun ==
    /\ pc = "entries"
    /\ pos > Len(entries)
    /\ scenarios' = scenarios
    /\ current_scenario' = None
    /\ scenario_analysis' = None
    /\ nfiles' = nfiles + 1
    /\ pc' = "files"
    /\ UNCHANGED <<threshold_config, lines, entries, aborted, pos, written,
                   exit_code>>
    /\ UNCHANGED <<pqVars, statVars>>

\* The end of analyze_entries: "Add final scenario if exists"; its locals
\* end with the call.
FinishEntries ==
    /\ pc = "entries"
    /\ pos > Len(entries)
    /\ scenarios' = IF scenario_analysis # None /\ Truthy(current_scenario)
                    THEN AppendRun(scenarios, current_scenario, scenario_analysis)
                    ELSE scenarios
    /\ current_scenario' = None
    /\ scenario_analysis' = None
    /\ nfiles' = nfiles + 1
    /\ pc' = "files"
    /\ UNCHANGED <<threshold_config, lines, entries, aborted, pos, written,
                   exit_code>>
    /\ UNCHANGED <<pqVars, statVars>>

\* The end of analyze_files: apply_thresholds over every run.
ApplyThresholds ==
    /\ pc = "files"
    /\ scenarios' = apply_thresholds(threshold_config, scenarios)
    /\ pc' = "applied"
    /\ UNCHANGED <<threshold_config, lines, entries, aborted, pos,
                   current_scenario, scenario_analysis, nfiles, written,
                   exit_code>>
    /\ UNCHANGED <<pqVars, statVars>>

\* main() writes the report and exits.
StressExit ==
    /\ pc = "applied"
    /\ \E write_ok \in BOOLEAN :
          /\ written' = write_ok
          /\ exit_code' = StressExitCode(scenarios, write_ok)
    /\ pc' = "exited"
    /\ UNCHANGED <<threshold_config, scenarios, lines, entries, aborted, pos,
                   current_scenario, scenario_analysis, nfiles>>
    /\ UNCHANGED <<pqVars, statVars>>

---------------------------------------------------------------------------
(* PQAnalyzer.                                                             *)
(* Numbers that the code truncates with int() are decimal numbers i + f/10 *)
(* (i >= 0, f in 0..9).                                                    *)
Dec(i, f) == [i |-> i, f |-> f]
IntOf(d) == d.i                         \* int(x), x >= 0
DecPositive(d) == d.i > 0 \/ d.f > 0    \* x > 0
Min(a, b) == IF a < b THEN a ELSE b
Max(a, b) == IF a > b THEN a ELSE b

\* A JSON object, and a JSON string with what json.loads makes of its text.
JObj(d) == [t |-> "obj", d |-> d]
JStr(decoded) == [t |-> "str", decoded |-> decoded]
JError == [t |-> "error"]               \* json.loads raises JSONDecodeError
JNumber == [t |-> "num"]                \* json.loads gives a number

SampleCap == 100
MicrosPerSecond == 1000000

DEFAULT_THRESHOLDS ==
    <<KV("signature",    <<KV("latency_p99_us", 1000), KV("throughput_min", 1000),
                           KV("failure_rate_max", Rat(1, 100))>>),
      KV("verification", <<KV("latency_p99_us", 500), KV("throughput_min", 2000),
                           KV("failure_rate_max", Rat(1, 100))>>),
      KV("kem_encap",    <<KV("latency_p99_us", 200), KV("throughput_min", 5000)>>),
      KV("kem_decap",    <<KV("latency_p99_us", 200), KV("throughput_min", 5000),
                           KV("failure_rate_max", Rat(1, 100))>>),
      KV("invite",       <<KV("success_rate_min", Rat(95, 100))>>)>>

\* LatencyMetrics(): the all-zero statistics.
LatencyMetrics ==
    [count |-> 0, total_us |-> 0, min_us |-> 0, max_us |-> 0, p50_us |-> 0,
     p95_us |-> 0, p99_us |-> 0, avg_us |-> Rat(0, 1), ops_per_sec |-> Rat(0, 1)]

\* sum(s[lo..hi]), by halves.
RECURSIVE SumRange(_, _, _)
SumRange(s, lo, hi) ==
    IF lo > hi THEN 0
    ELSE IF lo = hi THEN s[lo]
    ELSE LET mid == (lo + hi) \div 2
         IN  SumRange(s, lo, mid) + SumRange(s, mid + 1, hi)

\* A percentile that ranks over count - 1 intervals.
percentile_over_intervals(sorted_latencies, p) ==
    LET count == Len(sorted_latencies)
        idx == ((count - 1) * p) \div 100
    IN  sorted_latencies[Max(0, Min(idx, count - 1)) + 1]

\* calculate_stats' inner percentile(p) over the sorted samples.
percentile(sorted_latencies, p) ==
    LET count == Len(sorted_latencies)
        idx == (count * p) \div 100
    IN  sorted_latencies[Max(0, Min(idx, count - 1)) + 1]

\* OperationMetrics.calculate_stats
\* calculate_stats reading the samples in the order they were recorded.
calculate_stats_unsorted(lat) ==
    IF lat = <<>> THEN LatencyMetrics
    ELSE LET sorted_latencies == lat
             count == Len(sorted_latencies)
             total == SumRange(sorted_latencies, 1, count)
         IN  [count    |-> count,
              total_us |-> total,
              min_us   |-> sorted_latencies[1],
              max_us   |-> sorted_latencies[count],
              p50_us   |-> percentile(sorted_latencies, 50),
              p95_us   |-> percentile(sorted_latencies, 95),
              p99_us   |-> percentile(sorted_latencies, 99),
              avg_us   |-> Rat(total, count),
              ops_per_sec |-> IF total > 0
                              THEN Rat(MicrosPerSecond * count, total)
                              ELSE Rat(0, 1)]

calculate_stats(lat) ==
    IF lat = <<>> THEN LatencyMetrics
    ELSE LET sorted_latencies == SortSeq(lat, LAMBDA a, b : a < b)
             count == Len(sorted_latencies)
             total == SumRange(sorted_latencies, 1, count)
         IN  [count    |-> count,
              total_us |-> total,
              min_us   |-> sorted_latencies[1],
              max_us   |-> sorted_latencies[count],
              p50_us   |-> percentile(sorted_latencies, 50),
              p95_us   |-> percentile(sorted_latencies, 95),
              p99_us   |-> percentile(sorted_latencies, 99),
              avg_us   |-> Rat(total, count),
              ops_per_sec |-> IF total > 0
                              THEN Rat(MicrosPerSecond * count, total)
                              ELSE Rat(0, 1)]

OperationMetrics(operation) ==
    [operation |-> operation, successes |-> 0, failures |-> 0, latencies |-> <<>>]

\* PQAnalyzer.__init__: "thresholds or self.DEFAULT_THRESHOLDS".
PQAnalyzer(thresholds) ==
    [thresholds |-> IF thresholds = None \/ thresholds.d = EmptyDict
                    THEN DEFAULT_THRESHOLDS ELSE thresholds.d,
     operations |-> [sign      |-> OperationMetrics("sign"),
                     verify    |-> OperationMetrics("verify"),
                     kem_encap |-> OperationMetrics("kem_encap"),
                     kem_decap |-> OperationMetrics("kem_decap")],
     invites_created  |-> 0,
     invites_accepted |-> 0,
     invites_failed   |-> 0,
     scenario_name    |-> "unknown",
     trace_ids        |-> {}]

\* The operations slot a summary entry's "operation" value feeds.
SummarySlot(op) ==
    CASE op = "sign"        -> "sign"
      [] op = "verify"      -> "verify"
      [] op = "encapsulate" -> "kem_encap"
      [] op = "decapsulate" -> "kem_decap"
      [] OTHER              -> ""

\* One sample per counted operation, without a cap.
SynthesizedSamplesUncapped(count, avg_us) ==
    [j \in 1..count |-> IntOf(avg_us)]

\* "for _ in range(min(count, 100)): latencies.append(int(avg_us))"
SynthesizedSamples(count, avg_us) ==
    [j \in 1..Min(count, SampleCap) |-> IntOf(avg_us)]

\* A counter that takes the value last reported.
CounterOverwrite(old, new) == new

\* "x = max(x, new)"
CounterUpdate(old, new) == Max(old, new)

\* "Parse summary benchmark logs": the "operation" branch.
ProcessSummary(ops, fields) ==
    IF ~DictHas(fields, "operation") THEN ops
    ELSE LET slot == SummarySlot(DictGet(fields, "operation"))
             count == DictGetOr(fields, "count", 0)
             avg_us == DictGetOr(fields, "latency_avg_us", Dec(0, 0))
         IN  IF slot # "" /\ count > 0
             THEN [ops EXCEPT
                     ![slot].latencies = @ \o SynthesizedSamples(count, avg_us),
                     ![slot].successes = CounterUpdate(@, count)]
             ELSE ops

\* "Parse completion summary logs": one cumulative counter.
ProcessCounter(ops, fields, key, slot, counter) ==
    IF DictHas(fields, key)
    THEN [ops EXCEPT ![slot][counter] = CounterUpdate(@, DictGetOr(fields, key, 0))]
    ELSE ops

ProcessCounters(ops, fields) ==
    LET o1 == ProcessCounter(ops, fields, "total_signatures_created", "sign", "successes")
        o2 == ProcessCounter(o1, fields, "total_signatures_verified", "verify", "successes")
        o3 == ProcessCounter(o2, fields, "signature_failures", "verify", "failures")
        o4 == ProcessCounter(o3, fields, "total_kem_encapsulations", "kem_encap", "successes")
        o5 == ProcessCounter(o4, fields, "total_kem_decapsulations", "kem_decap", "successes")
    IN  ProcessCounter(o5, fields, "kem_failures", "kem_decap", "failures")

\* "Add latency samples from summary if available": one operation.
ProcessAverage(ops, fields, key, slot) ==
    IF DictHas(fields, key) /\ ops[slot].latencies = <<>>
                            /\ DecPositive(DictGet(fields, key))
    THEN [ops EXCEPT ![slot].latencies = Append(@, IntOf(DictGet(fields, key)))]
    ELSE ops

ProcessAverages(ops, fields) ==
    LET o1 == ProcessAverage(ops, fields, "avg_sign_latency_us", "sign")
        o2 == ProcessAverage(o1, fields, "avg_verify_latency_us", "verify")
        o3 == ProcessAverage(o2, fields, "avg_encap_latency_us", "kem_encap")
    IN  ProcessAverage(o3, fields, "avg_decap_latency_us", "kem_decap")

\* The payload _process_log_entry works on: a string is decoded, and a
\* JSONDecodeError gives the empty payload.
DecodeFields(entry) ==
    LET fields_raw == DictGetOr(entry, "fields", JObj(EmptyDict)) IN
    IF fields_raw.t = "str"
    THEN (IF fields_raw.decoded = JError THEN JObj(EmptyDict) ELSE fields_raw.decoded)
    ELSE fields_raw

\* PQAnalyzer._process_log_entry on a JSON object; raised: the call ended in
\* an exception (a payload that is no mapping).
process_log_entry(a, entry) ==
    LET payload == DecodeFields(entry) IN
    IF payload.t # "obj" THEN [pq |-> a, raised |-> TRUE]
    ELSE LET fields == payload.d IN
         [raised |-> FALSE,
          pq |-> [a EXCEPT
            !.scenario_name =
                IF DictHas(entry, "scenario") THEN DictGet(entry, "scenario")
                ELSE IF DictHas(fields, "scenario") THEN DictGet(fields, "scenario")
                ELSE @,
            !.trace_ids =
                IF DictHas(entry, "trace_id") THEN @ \cup {DictGet(entry, "trace_id")}
                ELSE IF DictHas(fields, "trace_id") THEN @ \cup {DictGet(fields, "trace_id")}
                ELSE @,
            !.operations =
                ProcessAverages(ProcessCounters(ProcessSummary(@, fields), fields),
                                fields),
            !.invites_created =
                IF DictHas(fields, "invites_created")
                THEN CounterUpdate(@, DictGetOr(fields, "invites_created", 0)) ELSE @,
            !.invites_accepted =
                IF DictHas(fields, "invites_accepted")
                THEN CounterUpdate(@, DictGetOr(fields, "invites_accepted", 0)) ELSE @,
            !.invites_failed =
                IF DictHas(fields, "invites_failed")
                THEN CounterUpdate(@, DictGetOr(fields, "invites_failed", 0)) ELSE @]]

\* Latency and throughput checks that are skipped for an operation without
\* samples.
check_thresholds_skipping_empty(thresholds, metrics, threshold_key) ==
    LET th == DictGetOr(thresholds, threshold_key, EmptyDict) IN
    IF metrics.count = 0 THEN <<>>
    ELSE
    (IF DictHas(th, "latency_p99_us")
     THEN <<[metric |-> threshold_key \o "_latency_p99_us",
             target |-> DictGet(th, "latency_p99_us"),
             actual |-> metrics.p99_us,
             passed |-> metrics.p99_us <= DictGet(th, "latency_p99_us")]>>
     ELSE <<>>)
    \o
    (IF DictHas(th, "throughput_min")
     THEN <<[metric |-> threshold_key \o "_throughput",
             target |-> DictGet(th, "throughput_min"),
             actual |-> metrics.ops_per_sec,
             passed |-> RatLeq(Rat(DictGet(th, "throughput_min"), 1),
                               metrics.ops_per_sec)]>>
     ELSE <<>>)

\* Latency and throughput checks that pass only strictly inside the bound.
check_thresholds_strict(thresholds, metrics, threshold_key) ==
    LET th == DictGetOr(thresholds, threshold_key, EmptyDict) IN
    (IF DictHas(th, "latency_p99_us")
     THEN <<[metric |-> threshold_key \o "_latency_p99_us",
             target |-> DictGet(th, "latency_p99_us"),
             actual |-> metrics.p99_us,
             passed |-> metrics.p99_us < DictGet(th, "latency_p99_us")]>>
     ELSE <<>>)
    \o
    (IF DictHas(th, "throughput_min")
     THEN <<[metric |-> threshold_key \o "_throughput",
             target |-> DictGet(th, "throughput_min"),
             actual |-> metrics.ops_per_sec,
             passed |-> ~RatLeq(metrics.ops_per_sec,
                                Rat(DictGet(th, "throughput_min"), 1))]>>
     ELSE <<>>)

\* PQAnalyzer.check_thresholds: the latency and throughput checks of one
\* policy category.
check_thresholds(thresholds, metrics, threshold_key) ==
    LET th == DictGetOr(thresholds, threshold_key, EmptyDict) IN
    (IF DictHas(th, "latency_p99_us")
     THEN <<[metric |-> threshold_key \o "_latency_p99_us",
             target |-> DictGet(th, "latency_p99_us"),
             actual |-> metrics.p99_us,
             passed |-> metrics.p99_us <= DictGet(th, "latency_p99_us")]>>
     ELSE <<>>)
    \o
    (IF DictHas(th, "throughput_min")
     THEN <<[metric |-> threshold_key \o "_throughput",
             target |-> DictGet(th, "throughput_min"),
             actual |-> metrics.ops_per_sec,
             passed |-> RatLeq(Rat(DictGet(th, "throughput_min"), 1),
                               metrics.ops_per_sec)]>>
     ELSE <<>>)

\* A failure-rate check emitted whatever the total is.
FailureRateCheckUnguarded(thresholds, threshold_key, failures, total) ==
    LET threshold == DictGetOr(DictGetOr(thresholds, threshold_key, EmptyDict),
                               "failure_rate_max", Rat(1, 100))
    IN  <<[metric |-> threshold_key \o "_failure_rate",
           target |-> threshold,
           actual |-> Rat(failures, total),
           passed |-> RatLeq(Rat(failures, total), threshold)]>>

\* One failure-rate check of generate_report: emitted when total > 0; the
\* bound defaults to 0.01 when the policy declares none.
FailureRateCheck(thresholds, threshold_key, failures, total) ==
    IF total > 0
    THEN LET threshold == DictGetOr(DictGetOr(thresholds, threshold_key, EmptyDict),
                                    "failure_rate_max", Rat(1, 100))
         IN  <<[metric |-> threshold_key \o "_failure_rate",
                target |-> threshold,
                actual |-> Rat(failures, total),
                passed |-> RatLeq(Rat(failures, total), threshold)]>>
    ELSE <<>>

\* The invite success-rate check; the bound defaults to 0.95.
InviteCheck(thresholds, accepted, invite_total) ==
    IF invite_total > 0
    THEN LET threshold == DictGetOr(DictGetOr(thresholds, "invite", EmptyDict),
                                    "success_rate_min", Rat(95, 100))
         IN  <<[metric |-> "invite_success_rate",
                target |-> threshold,
                actual |-> Rat(accepted, invite_total),
                passed |-> RatLeq(threshold, Rat(accepted, invite_total))]>>
    ELSE <<>>

\* all_checks of generate_report, in the order the code appends them.
AllChecks(a) ==
    LET ops == a.operations
        verify_total == ops.verify.successes + ops.verify.failures
        decap_total == ops.kem_decap.successes + ops.kem_decap.failures
        invite_total == a.invites_accepted + a.invites_failed
    IN  check_thresholds(a.thresholds, calculate_stats(ops.sign.latencies), "signature")
        \o check_thresholds(a.thresholds, calculate_stats(ops.verify.latencies), "verification")
        \o check_thresholds(a.thresholds, calculate_stats(ops.kem_encap.latencies), "kem_encap")
        \o check_thresholds(a.thresholds, calculate_stats(ops.kem_decap.latencies), "kem_decap")
        \o FailureRateCheck(a.thresholds, "verification", ops.verify.failures, verify_total)
        \o FailureRateCheck(a.thresholds, "kem_decap", ops.kem_decap.failures, decap_total)
        \o InviteCheck(a.thresholds, a.invites_accepted, invite_total)

CheckPassed(c) == c.passed
\* The filter of failed_checks without its "not".
CheckFailedInverted(c) == c.passed
CheckFailed(c) == ~c.passed
MetricsOf(checks) == [i \in DOMAIN checks |-> checks[i].metric]

\* PQAnalyzer.generate_report (test_run_id and timestamp left out: they
\* come from a set's iteration order and the clock).
generate_report(a) ==
    LET ops == a.operations
        all_checks == AllChecks(a)
        all_passed == \A i \in DOMAIN all_checks : all_checks[i].passed
        failed_checks == SelectSeq(all_checks, CheckFailed)
        invite_total == a.invites_accepted + a.invites_failed
    IN  [scenario |-> a.scenario_name,
         status   |-> IF all_passed THEN "pass" ELSE "fail",
         metrics  |->
            [signature |->
                [operations |-> [created  |-> ops.sign.successes,
                                 verified |-> ops.verify.successes,
                                 failures |-> ops.verify.failures],
                 latency |-> calculate_stats(ops.sign.latencies),
                 verification_latency |-> calculate_stats(ops.verify.latencies)],
             kem |->
                [operations |-> [encapsulations |-> ops.kem_encap.successes,
                                 decapsulations |-> ops.kem_decap.successes,
                                 failures       |-> ops.kem_decap.failures],
                 encap_latency |-> calculate_stats(ops.kem_encap.latencies),
                 decap_latency |-> calculate_stats(ops.kem_decap.latencies)],
             invites |->
                [created  |-> a.invites_created,
                 accepted |-> a.invites_accepted,
                 failed   |-> a.invites_failed,
                 success_rate |-> IF invite_total > 0
                                  THEN Rat(a.invites_accepted, invite_total)
                                  ELSE Rat(1, 1)]],
         thresholds |->
            [checks |-> all_checks,
             passed |-> Len(SelectSeq(all_checks, CheckPassed)),
             failed |-> Len(failed_checks),
             total  |-> Len(all_checks)],
         summary |->
            [total_pq_operations |->
                ops.sign.successes + ops.verify.successes
                + ops.kem_encap.successes + ops.kem_decap.successes,
             failed_checks |-> MetricsOf(failed_checks)]]

\* "sys.exit(0 if report['status'] == 'pass' else 1)"
PQExitCode(r) == IF r.status = "pass" THEN 0 ELSE 1

---------------------------------------------------------------------------
(* Inputs of the PQAnalyzer runs.                                          *)
PQEntry(fields) == ObjectLine(<<KV("fields", JObj(fields))>>)

\* The spec's end-to-end scenario "baseline".
BaselineSummary ==
    ObjectLine(<<KV("scenario", "baseline"),
                 KV("fields", JObj(<<KV("operation", "sign"), KV("count", 500),
                                     KV("latency_avg_us", Dec(300, 0))>>))>>)
BaselineCompletion ==
    ObjectLine(<<KV("scenario", "baseline"), KV("message", "completed"),
                 KV("fields", JObj(<<KV("total_signatures_created", 500)>>))>>)

SummaryLines ==
    {PQEntry(<<KV("operation", "sign"), KV("count", 2),
               KV("latency_avg_us", Dec(120, 5))>>),
     PQEntry(<<KV("operation", "verify"), KV("count", 3),
               KV("latency_avg_us", Dec(40, 0))>>),
     PQEntry(<<KV("operation", "decapsulate"), KV("count", 1),
               KV("latency_avg_us", Dec(900, 0))>>)}

CounterLines ==
    {PQEntry(<<KV("total_signatures_created", 1), KV("total_signatures_verified", 2),
               KV("signature_failures", 0), KV("invites_accepted", 1)>>),
     PQEntry(<<KV("total_signatures_verified", 5), KV("signature_failures", 1),
               KV("total_kem_decapsulations", 4), KV("kem_failures", 0),
               KV("invites_created", 3), KV("invites_accepted", 2),
               KV("invites_failed", 1)>>),
     PQEntry(<<KV("total_kem_encapsulations", 2), KV("total_kem_decapsulations", 1),
               KV("kem_failures", 2), KV("invites_created", 1),
               KV("invites_failed", 0)>>)}

AverageLines ==
    {PQEntry(<<KV("avg_sign_latency_us", Dec(700, 9))>>)}

PQLines == {BaselineSummary, BaselineCompletion}
           \cup SummaryLines \cup CounterLines \cup AverageLines
           \cup {BlankLine, BadJsonLine}

\* The payload of a record whose "fields" is a string holding a JSON object.
EncodedPayload ==
    <<KV("scenario", "encoded"), KV("total_signatures_created", 3)>>

PQParseLines == {BaselineSummary, BaselineCompletion, BlankLine, BadJsonLine,
                 NonObjectLine,
                 ObjectLine(<<KV("fields", JStr(JError))>>),
                 ObjectLine(<<KV("fields", JStr(JNumber))>>),
                 ObjectLine(<<KV("fields", JStr(JObj(EncodedPayload)))>>)}

MergeLines == SummaryLines \cup AverageLines

\* Summaries and counters that meet, break and sit on the bounds of the
\* policies below.
CheckLines ==
    {PQEntry(<<KV("operation", "sign"), KV("count", 2),
               KV("latency_avg_us", Dec(1200, 0))>>),
     PQEntry(<<KV("operation", "verify"), KV("count", 3),
               KV("latency_avg_us", Dec(40, 0))>>),
     PQEntry(<<KV("operation", "encapsulate"), KV("count", 101),
               KV("latency_avg_us", Dec(7, 9))>>),
     PQEntry(<<KV("operation", "decapsulate"), KV("count", 1),
               KV("latency_avg_us", Dec(900, 0))>>),
     PQEntry(<<KV("operation", "sign"), KV("count", 0),
               KV("latency_avg_us", Dec(120, 5))>>),
     PQEntry(<<KV("operation", "verify"), KV("count", -1),
               KV("latency_avg_us", Dec(5, 0))>>),
     PQEntry(<<KV("total_signatures_verified", 5), KV("signature_failures", 1),
               KV("invites_accepted", 2), KV("invites_failed", 1)>>)}

\* Policies of a PQ run: none (--thresholds absent), or a file's content.
PQSignatureOnly ==
    <<KV("signature", <<KV("latency_p99_us", 1000), KV("throughput_min", 1000)>>)>>
PQPolicies == {None, JObj(PQSignatureOnly)}
PQPartial ==
    <<KV("verification", <<KV("latency_p99_us", 40),
                           KV("failure_rate_max", Rat(1, 4))>>),
      KV("kem_decap",    <<KV("throughput_min", 1000)>>),
      KV("invite",       <<KV("success_rate_min", Rat(1, 2))>>)>>
\* A policy that declares the invite bound only.
PQInviteOnly == <<KV("invite", <<KV("success_rate_min", Rat(1, 2))>>)>>
CheckPolicies == PQPolicies \cup {JObj(PQPartial), JObj(PQInviteOnly)}

---------------------------------------------------------------------------
(* PQAnalyzer: main().                                                     *)
PQIdle ==
    /\ pq = None
    /\ pqFiles = <<>>
    /\ pqFile = 1
    /\ pqPos = 1
    /\ pqPc = "off"
    /\ report = None
    /\ pqExit = -1

\* main() up to the loop over the input files.
PQStart(FileLists, policies) ==
    /\ pq \in {PQAnalyzer(th) : th \in policies}
    /\ pqFiles \in FileLists
    /\ pqFile = 1
    /\ pqPos = 1
    /\ pqPc = "parse"
    /\ report = None
    /\ pqExit = -1

PQInit(FileLists) == PQStart(FileLists, PQPolicies)

\* "if not input_files: sys.exit(1)"
PQNoFiles ==
    /\ pqPc = "parse"
    /\ pqFiles = <<>>
    /\ pqExit' = 1
    /\ pqPc' = "exited"
    /\ UNCHANGED <<pq, pqFiles, pqFile, pqPos, report>>
    /\ UNCHANGED <<stressVars, statVars>>

\* parse_log_file: one line of the current file. A JSONDecodeError is caught
\* and the line skipped; any other exception leaves parse_log_file and
\* main(), and the interpreter exits with status 1.
PQProcessLine ==
    /\ pqPc = "parse"
    /\ pqFile <= Len(pqFiles)
    /\ pqPos <= Len(pqFiles[pqFile])
    /\ LET line == pqFiles[pqFile][pqPos]
           res == IF line.kind = "object" THEN process_log_entry(pq, line.data)
                  ELSE [pq |-> pq, raised |-> line.kind = "nonobject"]
       IN  /\ pq' = res.pq
           /\ pqPc' = IF res.raised THEN "crashed" ELSE pqPc
           /\ pqExit' = IF res.raised THEN 1 ELSE pqExit
    /\ pqPos' = pqPos + 1
    /\ UNCHANGED <<pqFiles, pqFile, report>>
    /\ UNCHANGED <<stressVars, statVars>>

\* The end of a file: main()'s loop takes the next one.
PQNextFile ==
    /\ pqPc = "parse"
    /\ pqFile <= Len(pqFiles)
    /\ pqPos > Len(pqFiles[pqFile])
    /\ pqFile' = pqFile + 1
    /\ pqPos' = 1
    /\ UNCHANGED <<pq, pqFiles, pqPc, report, pqExit>>
    /\ UNCHANGED <<stressVars, statVars>>

PQGenerateReport ==
    /\ pqPc = "parse"
    /\ pqFiles # <<>>
    /\ pqFile > Len(pqFiles)
    /\ report' = generate_report(pq)
    /\ pqPc' = "reported"
    /\ UNCHANGED <<pq, pqFiles, pqFile, pqPos, pqExit>>
    /\ UNCHANGED <<stressVars, statVars>>

PQExit ==
    /\ pqPc = "reported"
    /\ pqExit' = PQExitCode(report)
    /\ pqPc' = "exited"
    /\ UNCHANGED <<pq, pqFiles, pqFile, pqPos, report>>
    /\ UNCHANGED <<stressVars, statVars>>

---------------------------------------------------------------------------
(* OperationMetrics.calculate_stats on arbitrary sample lists.             *)
StatIdle ==
    /\ latencies = <<>>
    /\ stats = None

CalculateStats ==
    /\ stats = None
    /\ stats' = calculate_stats(latencies)
    /\ UNCHANGED latencies
    /\ UNCHANGED <<stressVars, pqVars>>

\* The sample lists calculate_stats is applied to: every short list, and
\* the integers 1..100 in increasing and in decreasing order.
SampleLists ==
    SeqsUpTo(1..MaxLatency, MaxSamples)
    \cup {[i \in 1..100 |-> i], [i \in 1..100 |-> 101 - i]}

---------------------------------------------------------------------------
(* main() of both analyzers: loading the threshold policy.                 *)

\* What --thresholds gives main(): no argument, the path of a file that does
\* not exist, a file that is no JSON, or a file holding a JSON object.
NoPolicyArgument == [kind |-> "absent"]
MissingPolicyFile == [kind |-> "missing"]
UnparsablePolicyFile == [kind |-> "badjson"]
PolicyFile(content) == [kind |-> "json", content |-> content]

\* load_threshold_config: FileNotFoundError and JSONDecodeError are caught,
\* a message is printed and None returned.
load_threshold_config(file) ==
    IF file.kind = "json" THEN ThresholdConfig(file.content) ELSE None

StressPolicyArguments ==
    {NoPolicyArgument, MissingPolicyFile, UnparsablePolicyFile,
     PolicyFile(PolicyMinMax)}
PQPolicyArguments ==
    {NoPolicyArgument, MissingPolicyFile, UnparsablePolicyFile,
     PolicyFile(PQSignatureOnly)}

\* The stress analyzer's main() before the policy is loaded.
StressBegin ==
    /\ threshold_config = None
    /\ scenarios = <<>>
    /\ lines = <<>>
    /\ entries = <<>>
    /\ aborted = FALSE
    /\ pos = 1
    /\ current_scenario = None
    /\ scenario_analysis = None
    /\ nfiles = 0
    /\ pc = "start"
    /\ written = FALSE
    /\ exit_code = -1

\* "threshold_config = None; if args.thresholds: threshold_config =
\* load_threshold_config(args.thresholds)", then StressAnalyzer(threshold_config).
StressLoadPolicy ==
    /\ pc = "start"
    /\ \E arg \in StressPolicyArguments :
          threshold_config' =
              IF arg = NoPolicyArgument THEN None ELSE load_threshold_config(arg)
    /\ pc' = "files"
    /\ UNCHANGED <<scenarios, lines, entries, aborted, pos, current_scenario,
                   scenario_analysis, nfiles, written, exit_code>>
    /\ UNCHANGED <<pqVars, statVars>>

\* The PQ analyzer's main() before the policy is loaded.
PQBegin(FileLists) ==
    /\ pq = None
    /\ pqFiles \in FileLists
    /\ pqFile = 1
    /\ pqPos = 1
    /\ pqPc = "start"
    /\ report = None
    /\ pqExit = -1

\* "thresholds = None; if args.thresholds: with open(args.thresholds) as f:
\* thresholds = json.load(f)", then PQAnalyzer(thresholds). Nothing catches
\* the exception of open or json.load: it leaves main(), and the interpreter
\* exits with status 1.
PQLoadPolicy ==
    /\ pqPc = "start"
    /\ \E arg \in PQPolicyArguments :
          IF arg.kind \in {"missing", "badjson"}
          THEN /\ pqPc' = "crashed"
               /\ pqExit' = 1
               /\ pq' = pq
          ELSE /\ pq' = PQAnalyzer(IF arg = NoPolicyArgument THEN None
                                   ELSE JObj(arg.content))
               /\ pqPc' = "parse"
               /\ pqExit' = pqExit
    /\ UNCHANGED <<pqFiles, pqFile, pqPos, report>>
    /\ UNCHANGED <<stressVars, statVars>>

---------------------------------------------------------------------------
(* Specifications.                                                         *)

\* StressAnalyzer over two files of named and unnamed events.
InitSeg == StressInit /\ PQIdle /\ StatIdle
NextSeg ==
    \/ ParseLogFile(SegLines, MaxLines, 2)
    \/ AnalyzeEntry
    \/ FinishEntries
    \/ ApplyThresholds
    \/ StressExit
SpecSeg == InitSeg /\ [][NextSeg]_vars

\* StressAnalyzer over one file of assertions and completion metrics.
InitVerdict == StressInit /\ PQIdle /\ StatIdle
NextVerdict ==
    \/ ParseLogFile(VerdictLines, MaxVerdictLines, 1)
    \/ AnalyzeEntry
    \/ FinishEntries
    \/ ApplyThresholds
    \/ StressExit
SpecVerdict == InitVerdict /\ [][NextVerdict]_vars

\* StressAnalyzer over one file with malformed lines.
InitParse == StressInit /\ PQIdle /\ StatIdle
NextParse ==
    \/ ParseLogFile(ParseLines, MaxLines, 1)
    \/ AnalyzeEntry
    \/ FinishEntries
    \/ ApplyThresholds
    \/ StressExit
SpecParse == InitParse /\ [][NextParse]_vars

\* StressAnalyzer over one file of events named in different ways.
InitIdentity == StressInit /\ PQIdle /\ StatIdle
NextIdentity ==
    \/ ParseLogFile(IdentityLines, MaxIdentityLines, 1)
    \/ AnalyzeEntry
    \/ FinishEntries
    \/ ApplyThresholds
    \/ StressExit
SpecIdentity == InitIdentity /\ [][NextIdentity]_vars

\* StressAnalyzer over two files of runs with and without assertions.
InitSummary == StressInit /\ PQIdle /\ StatIdle
NextSummary ==
    \/ ParseLogFile(SummaryRunLines, MaxSummaryLines, 2)
    \/ AnalyzeEntry
    \/ FinishEntries
    \/ ApplyThresholds
    \/ StressExit
SpecSummary == InitSummary /\ [][NextSummary]_vars

\* PQAnalyzer.
NextPQ ==
    \/ PQNoFiles
    \/ PQProcessLine
    \/ PQNextFile
    \/ PQGenerateReport
    \/ PQExit

\* ... over at most one file of summaries and counters.
InitPQ == PQInit(SeqsUpTo(SeqsUpTo(PQLines, MaxPQLines), 1)) /\ StressIdle /\ StatIdle
SpecPQ == InitPQ /\ [][NextPQ]_vars

\* ... over at most one file with malformed lines.
InitPQParse ==
    PQInit(SeqsUpTo(SeqsUpTo(PQParseLines, MaxPQLines), 1)) /\ StressIdle /\ StatIdle
SpecPQParse == InitPQParse /\ [][NextPQ]_vars

\* ... over the lines of a log split into at most two files.
InitMerge ==
    PQInit(SeqsUpTo(SeqsUpTo(MergeLines, MaxMergeLines), 2)) /\ StressIdle /\ StatIdle
SpecMerge == InitMerge /\ [][NextPQ]_vars

\* ... over at most one file, under policies that declare some bounds only.
InitChecks ==
    /\ PQStart(SeqsUpTo(SeqsUpTo(CheckLines, MaxCheckLines), 1), CheckPolicies)
    /\ StressIdle
    /\ StatIdle
SpecChecks == InitChecks /\ [][NextPQ]_vars

\* Both analyzers, each a process of its own, up to their exit.
ExitLines == {ObjectLine(RawScenarioA), ObjectLine(RawAssertPass),
              ObjectLine(RawAssertFail),
              ObjectLine(RawCompleted("delivery_rate", 4))}
ExitPQLines == {BaselineSummary, NonObjectLine}
InitExit ==
    /\ StressInit
    /\ PQInit(SeqsUpTo(SeqsUpTo(ExitPQLines, MaxExitLines), 1))
    /\ StatIdle
NextExit ==
    \/ ParseLogFile(ExitLines, MaxExitLines, 1)
    \/ AnalyzeEntry
    \/ FinishEntries
    \/ ApplyThresholds
    \/ StressExit
    \/ PQNoFiles
    \/ PQProcessLine
    \/ PQNextFile
    \/ PQGenerateReport
    \/ PQExit
SpecExit == InitExit /\ [][NextExit]_vars

\* Both analyzers from the start of main(), the policy not yet loaded.
PolicyRunLines == {ObjectLine(RawScenarioA),
                   ObjectLine(RawCompleted("delivery_rate", 1))}
InitPolicy ==
    /\ StressBegin
    /\ PQBegin(SeqsUpTo(SeqsUpTo({BaselineSummary}, MaxPolicyLines), 1))
    /\ StatIdle
NextPolicy ==
    \/ StressLoadPolicy
    \/ ParseLogFile(PolicyRunLines, MaxPolicyLines, 1)
    \/ AnalyzeEntry
    \/ FinishEntries
    \/ ApplyThresholds
    \/ StressExit
    \/ PQLoadPolicy
    \/ PQNoFiles
    \/ PQProcessLine
    \/ PQNextFile
    \/ PQGenerateReport
    \/ PQExit
SpecPolicy == InitPolicy /\ [][NextPolicy]_vars

\* calculate_stats on its own.
InitStats == latencies \in SampleLists /\ stats = None /\ StressIdle /\ PQIdle
NextStats == CalculateStats
SpecStats == InitStats /\ [][NextStats]_vars

---------------------------------------------------------------------------
(* Properties.                                                             *)

\* The recovered scenario names of a list of entries, unnamed entries left
\* out, and the places where a maximal block of equal names starts.
RecoveredNames(es) == [i \in DOMAIN es |-> extract_scenario_name(es[i])]
NamedOnly(es) == SelectSeq(RecoveredNames(es), Truthy)
BlockStarts(ns) == {i \in DOMAIN ns : i = 1 \/ ns[i] # ns[i - 1]}
BlocksNamed(ns, n) == Cardinality({i \in BlockStarts(ns) : ns[i] = n})
RunsUnder(scs, n) == IF n \in DOMAIN scs THEN Len(scs[n]) ELSE 0
FirstFileAnalysed == pc = "files" /\ nfiles = 1

\* C1 (segmentation multiplicity): when analyze_entries has returned for
\* the first file, every name has exactly as many runs in the collection as
\* the entries' recovered names hold maximal contiguous blocks of that name,
\* each run carrying that name: a name that recurs after another name is
\* not merged into one run.
C1_SegmentationMultiplicity ==
    FirstFileAnalysed =>
        LET ns == NamedOnly(entries) IN
        /\ \A n \in DOMAIN scenarios \cup {ns[i] : i \in DOMAIN ns} :
              RunsUnder(scenarios, n) = BlocksNamed(ns, n)
        /\ \A id \in RunIds(scenarios) : RunAt(scenarios, id).name = id[1]
        /\ Cardinality(RunIds(scenarios)) = Cardinality(BlockStarts(ns))

\* The stream [A, A, B, A] has been analysed: two runs under A, one under B.
C1_Witness_AABA ==
    /\ FirstFileAnalysed
    /\ NamedOnly(entries) = <<Str("A"), Str("A"), Str("B"), Str("A")>>
    /\ RunsUnder(scenarios, Str("A")) = 2
    /\ RunsUnder(scenarios, Str("B")) = 1

\* Every run the analyzer holds: the finished ones and the open one.
FinishedRuns == {RunAt(scenarios, id) : id \in RunIds(scenarios)}
OpenRuns == IF scenario_analysis = None THEN {} ELSE {scenario_analysis}
Last(s) == s[Len(s)]

\* C2 (verdict monotonicity): in every step, a run whose passed is False
\* keeps passed = False: the open run while it stays the open run, the open
\* run when it is appended to the collection, and every finished run
\* (through later events, later files and apply_thresholds).
C2_VerdictMonotonic ==
    [][ /\ (/\ scenario_analysis # None
            /\ scenario_analysis.passed = "False"
            /\ scenario_analysis' # None
            /\ current_scenario' = current_scenario)
           => scenario_analysis'.passed = "False"
        /\ (/\ scenario_analysis # None
            /\ scenario_analysis.passed = "False"
            /\ pc = "entries"
            /\ scenarios' # scenarios)
           => Last(scenarios'[current_scenario]).passed = "False"
        /\ \A id \in RunIds(scenarios) :
              RunAt(scenarios, id).passed = "False"
                 => /\ id \in RunIds(scenarios')
                    /\ RunAt(scenarios', id).passed = "False"
      ]_vars

\* A run that failed an assertion has then seen a passing one, and is
\* still failed.
C2_Witness_PassAfterFail ==
    /\ scenario_analysis # None
    /\ scenario_analysis.passed = "False"
    /\ Len(scenario_analysis.assertions) >= 2
    /\ ~scenario_analysis.assertions[1].passed
    /\ Last(scenario_analysis.assertions).passed

\* The assertions analyze_entries extracted from events (apply_thresholds
\* appends one more, with the list of its failures).
IsExtracted(a) == "failures" \notin DOMAIN a

\* A recorded metric that breaks the policy: named in it, and below the
\* declared min or above the declared max.
Breaches(cfg, m) ==
    /\ cfg # None
    /\ \E i \in DOMAIN cfg.thresholds :
          /\ cfg.thresholds[i].k = m.k
          /\ \E j \in DOMAIN cfg.thresholds[i].v :
                LET b == cfg.thresholds[i].v[j] IN
                \/ b.k = "min" /\ NumOf(m.v) < b.v
                \/ b.k = "max" /\ NumOf(m.v) > b.v
HasBreach(cfg, run) == \E i \in DOMAIN run.metrics : Breaches(cfg, run.metrics[i])
ThresholdsApplied == pc \in {"applied", "exited"}

\* C9 (pass requires a positive signal): a run whose passed is True has at
\* least one passed assertion, no failed assertion and no recorded threshold
\* failure, and once the thresholds are applied none of its metrics breaks
\* the policy; a run without any assertion is Unknown (None).
C9_PassNeedsPositiveSignal ==
    \A run \in FinishedRuns \cup OpenRuns :
        /\ run.passed = "True" =>
              /\ \E i \in DOMAIN run.assertions : run.assertions[i].passed
              /\ \A i \in DOMAIN run.assertions : run.assertions[i].passed
              /\ ThresholdsApplied => ~HasBreach(threshold_config, run)
        /\ run.assertions = <<>> => run.passed = "None"

\* A finished run is Pass after the thresholds were applied to its metrics.
C9_Witness_PassedRun ==
    /\ ThresholdsApplied
    /\ threshold_config # None
    /\ \E run \in FinishedRuns :
          /\ run.passed = "True"
          /\ run.metrics # EmptyDict
          /\ DictHas(run.metrics, "delivery_rate")

\* C10 (fail on first breach): once analyze_entries and apply_thresholds
\* are done, a run is Fail exactly when one of its extracted assertions did
\* not pass or one of its recorded metrics breaks the policy; metrics the
\* policy does not name, or within their bounds, fail nothing.
C10_FailOnBreach ==
    ThresholdsApplied =>
        \A run \in FinishedRuns :
            run.passed = "False" <=>
                \/ \E i \in DOMAIN run.assertions :
                      IsExtracted(run.assertions[i]) /\ ~run.assertions[i].passed
                \/ HasBreach(threshold_config, run)

\* A run whose assertions all passed is Fail because a metric is above the
\* declared max, next to a metric the policy does not name.
C10_Witness_BreachFails ==
    /\ ThresholdsApplied
    /\ \E run \in FinishedRuns :
          /\ run.passed = "False"
          /\ \E i \in DOMAIN run.assertions :
                IsExtracted(run.assertions[i]) /\ run.assertions[i].passed
          /\ \A i \in DOMAIN run.assertions :
                IsExtracted(run.assertions[i]) => run.assertions[i].passed
          /\ DictHas(run.metrics, "delivery_rate")
          /\ NumOf(DictGet(run.metrics, "delivery_rate")) = 4

\* The lines PQAnalyzer has processed so far, and their payloads.
RECURSIVE Flatten(_, _)
Flatten(fs, n) == IF n = 0 THEN <<>> ELSE Flatten(fs, n - 1) \o fs[n]
ProcessedLines ==
    Flatten(pqFiles, Min(pqFile - 1, Len(pqFiles)))
    \o (IF pqFile <= Len(pqFiles)
        THEN SubSeq(pqFiles[pqFile], 1, pqPos - 1) ELSE <<>>)
PayloadOf(line) ==
    IF line.kind = "object" /\ DecodeFields(line.data).t = "obj"
    THEN DecodeFields(line.data).d ELSE EmptyDict

\* The cumulative counters, with the summary operation and the completion
\* key that report each of them ("" when there is none).
OperationCounters ==
    {[slot |-> "sign", counter |-> "successes", op |-> "sign",
      key |-> "total_signatures_created"],
     [slot |-> "sign", counter |-> "failures", op |-> "", key |-> ""],
     [slot |-> "verify", counter |-> "successes", op |-> "verify",
      key |-> "total_signatures_verified"],
     [slot |-> "verify", counter |-> "failures", op |-> "",
      key |-> "signature_failures"],
     [slot |-> "kem_encap", counter |-> "successes", op |-> "encapsulate",
      key |-> "total_kem_encapsulations"],
     [slot |-> "kem_encap", counter |-> "failures", op |-> "", key |-> ""],
     [slot |-> "kem_decap", counter |-> "successes", op |-> "decapsulate",
      key |-> "total_kem_decapsulations"],
     [slot |-> "kem_decap", counter |-> "failures", op |-> "",
      key |-> "kem_failures"]}
InviteCounters == {"invites_created", "invites_accepted", "invites_failed"}

\* The values one payload reports for a counter.
ReportedByKey(fields, key) ==
    IF DictHas(fields, key) THEN {DictGet(fields, key)} ELSE {}
ReportedBySummary(fields, op) ==
    IF /\ DictHas(fields, "operation")
       /\ DictGet(fields, "operation") = op
       /\ DictHas(fields, "count")
    THEN {DictGet(fields, "count")} ELSE {}
ReportedFor(ls, c) ==
    UNION {ReportedByKey(PayloadOf(ls[i]), c.key)
             \cup ReportedBySummary(PayloadOf(ls[i]), c.op) : i \in DOMAIN ls}
ReportedInvites(ls, key) ==
    UNION {ReportedByKey(PayloadOf(ls[i]), key) : i \in DOMAIN ls}
MaxOrZero(S) == IF S = {} THEN 0 ELSE CHOOSE x \in S : \A y \in S : y <= x

\* C3 (counter monotonicity): after any sequence of processed entries every
\* cumulative counter equals the maximum of the values the entries reported
\* for it (0 if none), and no step of the analyzer lowers a counter.
C3_CounterMonotonic ==
    /\ [](pq # None =>
            /\ \A c \in OperationCounters :
                  pq.operations[c.slot][c.counter]
                     = MaxOrZero(ReportedFor(ProcessedLines, c))
            /\ \A k \in InviteCounters :
                  pq[k] = MaxOrZero(ReportedInvites(ProcessedLines, k)))
    /\ [][(pq # None /\ pq' # None) =>
            /\ \A c \in OperationCounters :
                  pq'.operations[c.slot][c.counter]
                     >= pq.operations[c.slot][c.counter]
            /\ \A k \in InviteCounters : pq'[k] >= pq[k]
         ]_vars

\* An entry reporting 2 verified signatures was processed after one that
\* reported 5: the counter still holds 5.
C3_Witness_LowerAfterHigher ==
    /\ pq # None
    /\ pqPc = "parse"
    /\ pqPos > 2
    /\ pqFile <= Len(pqFiles)
    /\ ReportedByKey(PayloadOf(pqFiles[pqFile][pqPos - 1]),
                     "total_signatures_verified") = {2}
    /\ pq.operations.verify.successes = 5
    /\ pq.invites_accepted = 2

\* v is the element at 0-based index k of the ascending order of s.
AtSortedIndex(s, v, k) ==
    /\ \E i \in DOMAIN s : s[i] = v
    /\ Cardinality({i \in DOMAIN s : s[i] < v}) <= k
    /\ k < Cardinality({i \in DOMAIN s : s[i] <= v})
\* floor(count * p / 100), clamped to [0, count - 1].
NearestRank(count, p) ==
    LET f == CHOOSE k \in 0..count : k * 100 <= count * p /\ count * p < (k + 1) * 100
    IN  IF f > count - 1 THEN count - 1 ELSE f

\* C4 (nearest-rank percentile): for a non-empty sample list, p50, p95 and
\* p99 are the elements of the ascending order at index floor(count*p/100)
\* clamped to [0, count-1]; for the samples 1..100 p50 is 51 (index 50) and
\* p99 is 100 (index 99); for one sample every percentile is that sample.
C4_NearestRankPercentile ==
    (stats # None /\ latencies # <<>>) =>
        /\ AtSortedIndex(latencies, stats.p50_us, NearestRank(Len(latencies), 50))
        /\ AtSortedIndex(latencies, stats.p95_us, NearestRank(Len(latencies), 95))
        /\ AtSortedIndex(latencies, stats.p99_us, NearestRank(Len(latencies), 99))
        /\ ({latencies[i] : i \in DOMAIN latencies} = 1..100 /\ Len(latencies) = 100)
              => (stats.p50_us = 51 /\ stats.p99_us = 100)
        /\ Len(latencies) = 1
              => /\ stats.p50_us = latencies[1]
                 /\ stats.p95_us = latencies[1]
                 /\ stats.p99_us = latencies[1]

\* The statistics of the samples 100, 99, .., 1 have been computed.
C4_Witness_Hundred ==
    /\ stats # None
    /\ Len(latencies) = 100
    /\ latencies[1] = 100
    /\ stats.p50_us = 51
    /\ stats.p99_us = 100

\* PQAnalyzer's state after the lines ls, from the state a.
RECURSIVE RunLines(_, _, _)
RunLines(a, ls, i) ==
    IF i > Len(ls) THEN a
    ELSE RunLines(IF ls[i].kind = "object"
                  THEN process_log_entry(a, ls[i].data).pq ELSE a,
                  ls, i + 1)
FreshAnalyzer == [PQAnalyzer(None) EXCEPT !.thresholds = pq.thresholds]

\* C5 (merge-order independence): the lines of a log being split into two
\* files, the report of the run (first file, then second) has the same
\* latency statistics, counters, checks and status as the report of the two
\* files processed in the other order.
C5_MergeOrderIndependent ==
    (pqPc = "reported" /\ Len(pqFiles) = 2) =>
        LET swapped == generate_report(
                          RunLines(RunLines(FreshAnalyzer, pqFiles[2], 1),
                                   pqFiles[1], 1))
        IN  /\ report.metrics = swapped.metrics
            /\ report.thresholds = swapped.thresholds
            /\ report.status = swapped.status

\* The positions, among a report's checks, of the two signature checks.
SignatureChecks(r) ==
    {j \in DOMAIN r.thresholds.checks :
        r.thresholds.checks[j].metric
           \in {"signature_latency_p99_us", "signature_throughput"}}

\* C6 (end-to-end scenario): with the default policy, the stream of
\* scenario "baseline" (summary sign/500/300, completion
\* total_signatures_created = 500) gives sign successes 500, p99 300,
\* throughput 3333 ops/sec, both signature checks passed and the report
\* status "pass".
C6_BaselinePasses ==
    (/\ pqPc = "reported"
     /\ pqFiles = << <<BaselineSummary, BaselineCompletion>> >>
     /\ pq.thresholds = DEFAULT_THRESHOLDS) =>
        /\ report.metrics.signature.operations.created = 500
        /\ report.metrics.signature.latency.p99_us = 300
        /\ report.metrics.signature.latency.ops_per_sec.num
              \div report.metrics.signature.latency.ops_per_sec.den = 3333
        /\ Cardinality(SignatureChecks(report)) = 2
        /\ \A j \in SignatureChecks(report) : report.thresholds.checks[j].passed
        /\ report.scenario = "baseline"
        /\ report.status = "pass"

\* The events of the well-formed lines of a file.
IsObjectLine(line) == line.kind = "object"
EventsOf(ls) ==
    LET objs == SelectSeq(ls, IsObjectLine)
    IN  [i \in DOMAIN objs |-> LogEntry(objs[i].data)]

\* C7 (malformed-line resilience): parse_log_file skips a malformed line
\* and nothing else: its result holds the event of every well-formed line
\* of the file, before and after the bad ones, and no failure cut the
\* reading short.
C7_MalformedLineSkippedAlone ==
    /\ entries = EventsOf(lines)
    /\ ~aborted

Reported == pqPc \in {"reported", "exited"} /\ report # None

\* The policy categories with latency samples, and the operation of each.
CategoryOps ==
    {[category |-> "signature",    slot |-> "sign"],
     [category |-> "verification", slot |-> "verify"],
     [category |-> "kem_encap",    slot |-> "kem_encap"],
     [category |-> "kem_decap",    slot |-> "kem_decap"]}
PolicyOf(category) == DictGetOr(pq.thresholds, category, EmptyDict)
ChecksNamed(metric) ==
    {i \in DOMAIN report.thresholds.checks :
        report.thresholds.checks[i].metric = metric}
CheckAt(i) == report.thresholds.checks[i]

\* The 99th percentile of a sample list, by rank (0 without samples).
P99Of(samples) ==
    IF samples = <<>> THEN 0
    ELSE CHOOSE v \in {samples[i] : i \in DOMAIN samples} :
            AtSortedIndex(samples, v, NearestRank(Len(samples), 99))

\* C11 (p99 threshold check): for every category whose policy declares
\* latency_p99_us = T the report holds exactly one check of that name, with
\* target T, actual the operation's p99 and passed = (p99 <= T); likewise one
\* throughput check with passed = (ops_per_sec >= throughput_min).
C11_P99ThresholdCheck ==
    Reported =>
        \A c \in CategoryOps :
            LET th == PolicyOf(c.category)
                lat == pq.operations[c.slot].latencies
                lc == ChecksNamed(c.category \o "_latency_p99_us")
                tc == ChecksNamed(c.category \o "_throughput")
            IN  /\ DictHas(th, "latency_p99_us") =>
                      /\ Cardinality(lc) = 1
                      /\ \A i \in lc :
                            /\ CheckAt(i).target = DictGet(th, "latency_p99_us")
                            /\ CheckAt(i).actual = P99Of(lat)
                            /\ CheckAt(i).passed
                                  <=> (P99Of(lat) <= DictGet(th, "latency_p99_us"))
                /\ DictHas(th, "throughput_min") =>
                      /\ Cardinality(tc) = 1
                      /\ \A i \in tc :
                            /\ CheckAt(i).target = DictGet(th, "throughput_min")
                            /\ CheckAt(i).actual = calculate_stats(lat).ops_per_sec
                            /\ CheckAt(i).passed
                                  <=> (DictGet(th, "throughput_min") * CheckAt(i).actual.den
                                          <= CheckAt(i).actual.num)

\* A p99 of 1200 against the bound 1000: the check failed, and the
\* throughput check of the same samples with it.
C11_Witness_P99Over ==
    /\ Reported
    /\ \E i \in ChecksNamed("signature_latency_p99_us") :
          /\ CheckAt(i).actual = 1200
          /\ CheckAt(i).target = 1000
          /\ ~CheckAt(i).passed
    /\ \E i \in ChecksNamed("signature_throughput") : ~CheckAt(i).passed

\* The bounds a policy can declare, and the name of the check of each.
BoundKinds ==
    {[key |-> "latency_p99_us",   suffix |-> "_latency_p99_us"],
     [key |-> "throughput_min",   suffix |-> "_throughput"],
     [key |-> "failure_rate_max", suffix |-> "_failure_rate"],
     [key |-> "success_rate_min", suffix |-> "_success_rate"]}
\* The counters behind the rates of a category (its rate is defined when
\* their sum is positive).
RateTotal(category) ==
    CASE category = "signature" ->
            pq.operations.sign.successes + pq.operations.sign.failures
      [] category = "verification" ->
            pq.operations.verify.successes + pq.operations.verify.failures
      [] category = "kem_encap" ->
            pq.operations.kem_encap.successes + pq.operations.kem_encap.failures
      [] category = "kem_decap" ->
            pq.operations.kem_decap.successes + pq.operations.kem_decap.failures
      [] category = "invite" -> pq.invites_accepted + pq.invites_failed
      [] OTHER -> 0
RateKeys == {"failure_rate_max", "success_rate_min"}

\* C12 (every declared bound is evaluated): for each category of the policy
\* and each bound it declares, the report holds a check for that bound
\* whenever the underlying metric is defined; a declared signature
\* failure_rate_max gives a signature failure-rate check when sign
\* successes + failures > 0.
C12_EveryDeclaredBoundChecked ==
    Reported =>
        \A category \in DictKeys(pq.thresholds) : \A b \in BoundKinds :
            (/\ DictHas(PolicyOf(category), b.key)
             /\ b.key \in RateKeys => RateTotal(category) > 0)
            => ChecksNamed(category \o b.suffix) # {}

\* C13 (no bound, no check): every check of the report is the check of a
\* bound that the policy in force declares for its category.
C13_NoBoundNoCheck ==
    Reported =>
        \A i \in DOMAIN report.thresholds.checks :
            \E category \in DictKeys(pq.thresholds) : \E b \in BoundKinds :
                /\ CheckAt(i).metric = category \o b.suffix
                /\ DictHas(PolicyOf(category), b.key)

\* The rate checks generate_report can emit.
RateChecks ==
    {[metric |-> "verification_failure_rate",
      part |-> pq.operations.verify.failures,
      total |-> pq.operations.verify.successes + pq.operations.verify.failures],
     [metric |-> "kem_decap_failure_rate",
      part |-> pq.operations.kem_decap.failures,
      total |-> pq.operations.kem_decap.successes + pq.operations.kem_decap.failures],
     [metric |-> "invite_success_rate",
      part |-> pq.invites_accepted,
      total |-> pq.invites_accepted + pq.invites_failed]}

\* C14 (failure rate with zero denominator): a failure-rate check
\* (verification, kem_decap) or the invite success-rate check is in the
\* report if and only if its denominator is greater than zero; when it is,
\* there is one, and its actual value is failures / (successes + failures)
\* (accepted / (accepted + failed) for invites); the report's invite success
\* rate is 1 when no invite was accepted or failed.
C14_RateCheckIffDenominator ==
    Reported =>
        /\ \A r \in RateChecks :
              /\ ChecksNamed(r.metric) # {} <=> r.total > 0
              /\ Cardinality(ChecksNamed(r.metric)) <= 1
              /\ \A i \in ChecksNamed(r.metric) :
                    /\ CheckAt(i).actual.den # 0
                    /\ CheckAt(i).actual.num * r.total
                          = r.part * CheckAt(i).actual.den
        /\ (pq.invites_accepted + pq.invites_failed = 0)
              => report.metrics.invites.success_rate = Rat(1, 1)

\* A report with a verification failure rate of 1/6 and, the kem_decap
\* counters being zero, no kem_decap failure-rate check.
C14_Witness_OneRateOnly ==
    /\ Reported
    /\ \E i \in ChecksNamed("verification_failure_rate") :
          CheckAt(i).actual = Rat(1, 6)
    /\ pq.operations.kem_decap.successes + pq.operations.kem_decap.failures = 0
    /\ ChecksNamed("kem_decap_failure_rate") = {}
    /\ ChecksNamed("invite_success_rate") # {}

\* The operations a summary entry can name, and the sample list of each.
SummaryOps ==
    {[op |-> "sign",        slot |-> "sign"],
     [op |-> "verify",      slot |-> "verify"],
     [op |-> "encapsulate", slot |-> "kem_encap"],
     [op |-> "decapsulate", slot |-> "kem_decap"]}
Slots == {"sign", "verify", "kem_encap", "kem_decap"}
\* The line the analyzer is about to process.
AtLine ==
    /\ pqPc = "parse"
    /\ pqFile <= Len(pqFiles)
    /\ pqPos <= Len(pqFiles[pqFile])
NextPayload == PayloadOf(pqFiles[pqFile][pqPos])
\* n copies of v.
Copies(n, v) == [j \in 1..n |-> v]

\* C20 (synthesized sample cap): processing one summary entry with
\* operation in {sign, verify, encapsulate, decapsulate}, count c > 0 and
\* average latency a appends exactly min(c, 100) samples, each the integer
\* part of a, to that operation's list and leaves the other lists as they
\* are; with count <= 0 no list changes.
C20_SynthesizedSampleCap ==
    [][(AtLine /\ pqPos' = pqPos + 1) =>
        \A o \in SummaryOps :
            (/\ DictHas(NextPayload, "operation")
             /\ DictGet(NextPayload, "operation") = o.op
             /\ DictHas(NextPayload, "count")
             /\ DictHas(NextPayload, "latency_avg_us")) =>
                LET c == DictGet(NextPayload, "count")
                    a == DictGet(NextPayload, "latency_avg_us")
                    n == IF c > 0 THEN (IF c < 100 THEN c ELSE 100) ELSE 0
                IN  /\ pq'.operations[o.slot].latencies
                          = pq.operations[o.slot].latencies \o Copies(n, a.i)
                    /\ \A other \in Slots \ {o.slot} :
                          pq'.operations[other].latencies
                             = pq.operations[other].latencies
      ]_vars

\* A summary of 101 encapsulations at 7.9 us has been processed: 100
\* samples of 7.
C20_Witness_Capped ==
    /\ pq # None
    /\ pqPos > 1
    /\ pq.operations.kem_encap.successes = 101
    /\ pq.operations.kem_encap.latencies = Copies(100, 7)
    /\ pq.operations.sign.latencies = <<>>

\* The value of a key of a payload when it is there and not empty.
Available(d, key) == DictHas(d, key) /\ Truthy(DictGet(d, key))
\* The name of an event by the priority order of its sources: fields, span,
\* message pattern, scenario target (name field or "unknown").
NameByPriority(e) ==
    IF Available(e.fields, "scenario") THEN DictGet(e.fields, "scenario")
    ELSE IF Available(e.span, "scenario") THEN DictGet(e.span, "scenario")
    ELSE IF "scenario" \in e.message.words /\ e.message.scen # ""
         THEN Str(e.message.scen)
    ELSE IF e.target \in ScenarioTargets
         THEN (IF Available(e.fields, "name") THEN DictGet(e.fields, "name")
               ELSE IF Available(e.span, "name") THEN DictGet(e.span, "name")
               ELSE Str("unknown"))
    ELSE None
\* The last name among the first n events, None when there is none.
RECURSIVE LastNamed(_, _)
LastNamed(es, n) ==
    IF n = 0 THEN None
    ELSE IF NameByPriority(es[n]) # None THEN NameByPriority(es[n])
    ELSE LastNamed(es, n - 1)

\* C15 (scenario-identity priority): the name the analyzer recovers from an
\* event is the first available of the fields' scenario, the span's
\* scenario, the identifier of the message pattern and, for a scenario
\* target, the name field or "unknown", and none only when none applies: the
\* current scenario is the name, by that order, of the last event that has
\* one.
C15_ScenarioIdentityPriority ==
    pc = "entries" => current_scenario = LastNamed(entries, pos - 1)

\* analyze_entries is about to take the event at pos, and the name it
\* recovers from it.
AtEvent == pc = "entries" /\ pos <= Len(entries)
NextEvent == entries[pos]
Unnamed(e) == ~Truthy(extract_scenario_name(e))

\* C16 (attribution of unnamed events): an event without a recoverable name
\* never closes or opens a run; it updates the open run (end_time, and the
\* warnings or errors it raises) and, when no run is open, changes no run at
\* all; the events before the first named one are still counted in the
\* global diagnostics: a file that holds only such events leaves a trace in
\* what the analyzer reports.
C16_UnnamedEventAttribution ==
    /\ [][(AtEvent /\ Unnamed(NextEvent) /\ pos' = pos + 1) =>
            /\ scenarios' = scenarios
            /\ current_scenario' = current_scenario
            /\ scenario_analysis = None => scenario_analysis' = None
            /\ scenario_analysis # None =>
                  /\ scenario_analysis'.name = scenario_analysis.name
                  /\ scenario_analysis'.start_time = scenario_analysis.start_time
                  /\ scenario_analysis'.end_time = NextEvent.timestamp
                  /\ Len(scenario_analysis'.warnings)
                        = Len(scenario_analysis.warnings)
                          + (IF NextEvent.level = "WARN" THEN 1 ELSE 0)
                  /\ Len(scenario_analysis'.errors)
                        = Len(scenario_analysis.errors)
                          + (IF NextEvent.level = "ERROR" THEN 1 ELSE 0)
         ]_vars
    /\ []((/\ FirstFileAnalysed
           /\ entries # <<>>
           /\ \A i \in DOMAIN entries : Unnamed(entries[i]))
          => (scenarios # <<>> \/ generate_summary(scenarios).total_scenarios > 0))

\* new is old with run appended to the list of name.
IsAppend(old, new, name, run) ==
    /\ DOMAIN new = DOMAIN old \cup {name}
    /\ new[name] = (IF name \in DOMAIN old THEN old[name] ELSE <<>>) \o <<run>>
    /\ \A n \in DOMAIN old \ {name} : new[n] = old[n]
\* The number of runs of a collection.
RECURSIVE CountRuns(_, _)
CountRuns(scs, names) ==
    IF names = {} THEN 0
    ELSE LET n == CHOOSE x \in names : TRUE
         IN  Len(scs[n]) + CountRuns(scs, names \ {n})

\* C17 (run lifecycle): the segmenter has no run open (and no current name)
\* or one run open under the current name; the open run is appended to the
\* list of its name exactly when an event with a different recovered name
\* arrives or the entries end, and nothing else changes the collection
\* during analyze_entries; when analyze_entries has returned no run is open
\* and the collection holds one run for each run that was opened.
C17_RunLifecycle ==
    /\ [](pc = "entries" =>
            /\ scenario_analysis = None <=> current_scenario = None
            /\ scenario_analysis # None
                  => scenario_analysis.name = current_scenario)
    /\ [][pc = "entries" =>
            LET ends == pos > Len(entries)
                open == scenario_analysis # None
                different ==
                    /\ ~ends
                    /\ ~Unnamed(entries[pos])
                    /\ extract_scenario_name(entries[pos]) # current_scenario
            IN  /\ (open /\ (ends \/ different))
                      => IsAppend(scenarios, scenarios', scenario_analysis.name,
                                  scenario_analysis)
                /\ ~(open /\ (ends \/ different)) => scenarios' = scenarios
                /\ different => /\ scenario_analysis' # None
                                /\ scenario_analysis'.name
                                      = extract_scenario_name(entries[pos])
                /\ ends => scenario_analysis' = None
         ]_vars
    /\ [](FirstFileAnalysed =>
            /\ scenario_analysis = None
            /\ CountRuns(scenarios, DOMAIN scenarios)
                  = Cardinality(BlockStarts(NamedOnly(entries))))

\* analyze_entries has returned for the events A, B: the run under A was
\* closed by B, the run under B by the end of the entries.
C17_Witness_ClosedByNameAndEnd ==
    /\ FirstFileAnalysed
    /\ NamedOnly(entries) = <<Str("A"), Str("B")>>
    /\ Len(entries) = 2
    /\ RunsUnder(scenarios, Str("A")) = 1
    /\ RunsUnder(scenarios, Str("B")) = 1
    /\ scenario_analysis = None

\* The places of a list of entries where a run is opened: a recovered name
\* that differs from the last one recovered before it.
RECURSIVE LastRecovered(_, _)
LastRecovered(es, n) ==
    IF n = 0 THEN None
    ELSE IF ~Unnamed(es[n]) THEN extract_scenario_name(es[n])
    ELSE LastRecovered(es, n - 1)
RunStarts(es) ==
    {i \in DOMAIN es :
        ~Unnamed(es[i]) /\ extract_scenario_name(es[i]) # LastRecovered(es, i - 1)}
\* The events attributed to the run opened at s: from s up to the next start.
AttributedTo(es, s) ==
    {i \in s..Len(es) : \A t \in RunStarts(es) : ~(s < t /\ t <= i)}
\* The run of the collection that was opened at s.
RunOpenedAt(scs, es, s) ==
    LET name == extract_scenario_name(es[s])
        k == Cardinality({t \in RunStarts(es) :
                             t <= s /\ extract_scenario_name(es[t]) = name})
    IN  scs[name][k]
Timestamps(es, I) == {es[i].timestamp.n : i \in I}
MinOf(S) == CHOOSE x \in S : \A y \in S : x <= y
MaxOf(S) == CHOOSE x \in S : \A y \in S : y <= x

\* C18 (run time bounds): when analyze_entries has returned, every run's
\* start_time is the earliest and its end_time the latest timestamp among
\* the events attributed to it, in whatever order the timestamps come.
C18_RunTimeBounds ==
    FirstFileAnalysed =>
        \A s \in RunStarts(entries) :
            LET run == RunOpenedAt(scenarios, entries, s)
                ts == Timestamps(entries, AttributedTo(entries, s))
            IN  /\ run.start_time = Num(MinOf(ts))
                /\ run.end_time = Num(MaxOf(ts))

\* The runs of a collection with a given verdict, counted list by list.
HasPassed(run) == run.passed = "True"
HasFailed(run) == run.passed = "False"
IsUnknown(run) == run.passed = "None"
RECURSIVE CountPassed(_, _)
CountPassed(scs, names) ==
    IF names = {} THEN 0
    ELSE LET n == CHOOSE x \in names : TRUE
         IN  Len(SelectSeq(scs[n], HasPassed)) + CountPassed(scs, names \ {n})
RECURSIVE CountFailed(_, _)
CountFailed(scs, names) ==
    IF names = {} THEN 0
    ELSE LET n == CHOOSE x \in names : TRUE
         IN  Len(SelectSeq(scs[n], HasFailed)) + CountFailed(scs, names \ {n})
RECURSIVE CountUnknown(_, _)
CountUnknown(scs, names) ==
    IF names = {} THEN 0
    ELSE LET n == CHOOSE x \in names : TRUE
         IN  Len(SelectSeq(scs[n], IsUnknown)) + CountUnknown(scs, names \ {n})

\* C19 (global summary): whatever files have been analysed, the summary's
\* total_scenarios is the number of finished runs over all names; passed,
\* failed and unknown count the runs whose verdict is Pass, Fail, Unknown
\* and add up to the total; pass_rate is passed / total * 100, and 0 when
\* the total is zero.
C19_GlobalSummary ==
    LET summary == generate_summary(scenarios)
        names == DOMAIN scenarios
    IN  /\ summary.total_scenarios = CountRuns(scenarios, names)
        /\ summary.passed = CountPassed(scenarios, names)
        /\ summary.failed = CountFailed(scenarios, names)
        /\ summary.unknown = CountUnknown(scenarios, names)
        /\ summary.passed + summary.failed + summary.unknown
              = summary.total_scenarios
        /\ summary.pass_rate.den # 0
        /\ summary.total_scenarios > 0 =>
              summary.pass_rate.num * summary.total_scenarios
                 = summary.passed * 100 * summary.pass_rate.den
        /\ summary.total_scenarios = 0 => summary.pass_rate.num = 0

\* Two files analysed and the process exited: one run passed, one stayed
\* unknown, the pass rate is 50.
C19_Witness_HalfPassed ==
    /\ pc = "exited"
    /\ nfiles = 2
    /\ generate_summary(scenarios).total_scenarios = 2
    /\ generate_summary(scenarios).passed = 1
    /\ generate_summary(scenarios).unknown = 1
    /\ generate_summary(scenarios).pass_rate = Rat(100, 2)


\* The "fields" value of the line the analyzer is about to process is a string.
StringFields ==
    /\ pqFiles[pqFile][pqPos].kind = "object"
    /\ DictHas(pqFiles[pqFile][pqPos].data, "fields")
    /\ DictGet(pqFiles[pqFile][pqPos].data, "fields").t = "str"
\* What that string decodes to, or the empty payload when the decode fails
\* or gives no mapping.
InnerPayload ==
    LET inner == DictGet(pqFiles[pqFile][pqPos].data, "fields").decoded
    IN  IF inner.t = "obj" THEN inner ELSE JObj(EmptyDict)

\* C21 (double-encoded payload): a record whose fields value is a string is
\* processed as the same record carrying the decoded mapping; when the
\* decode fails or yields no mapping it is processed as a record with an
\* empty payload; in both cases the analysis goes on.
C21_DoubleEncodedPayload ==
    [][(AtLine /\ pqPos' = pqPos + 1 /\ StringFields) =>
        /\ pqPc' = "parse"
        /\ pq' = process_log_entry(pq, DictPut(pqFiles[pqFile][pqPos].data,
                                               "fields", InnerPayload)).pq]_vars

\* C22 (policy fallback): once main() is past loading the policy, a policy
\* is in force in both analyzers, whatever --thresholds gave (no argument, a
\* missing or an unparsable file fall back to the default policy): the
\* stress analyzer does not run with no policy, the PQ analyzer has been
\* constructed and did not abort.
C22_PolicyFallback ==
    /\ (pc \notin {"off", "start"} => threshold_config # None)
    /\ (pqPc \notin {"off", "start"} => pq # None)

\* The samples of the list, as a set.
SampleSet == {latencies[i] : i \in DOMAIN latencies}

\* C23 (percentile ordering): for a non-empty sample list calculate_stats
\* gives count = number of samples and min <= p50 <= p95 <= p99 <= max, each
\* of the five a sample of the list; for the empty list it gives the
\* all-zero statistics (count 0, throughput 0).
C23_PercentileOrdering ==
    stats # None =>
        IF latencies = <<>>
        THEN /\ stats.count = 0
             /\ stats.total_us = 0
             /\ stats.min_us = 0 /\ stats.max_us = 0
             /\ stats.p50_us = 0 /\ stats.p95_us = 0 /\ stats.p99_us = 0
             /\ stats.avg_us.num = 0
             /\ stats.ops_per_sec.num = 0
        ELSE /\ stats.count = Len(latencies)
             /\ stats.min_us <= stats.p50_us
             /\ stats.p50_us <= stats.p95_us
             /\ stats.p95_us <= stats.p99_us
             /\ stats.p99_us <= stats.max_us
             /\ {stats.min_us, stats.p50_us, stats.p95_us, stats.p99_us,
                 stats.max_us} \subseteq SampleSet

C23_Witness_Unsorted ==
    /\ stats # None
    /\ latencies = <<3, 1, 2>>
    /\ stats.count = 3
    /\ stats.min_us = 1
    /\ stats.p50_us = 2
    /\ stats.p99_us = 3
    /\ stats.max_us = 3

\* The runs the analyzer holds: the finished ones plus the open one.
RunsHeld(scs, open) ==
    CountRuns(scs, DOMAIN scs) + (IF open = None THEN 0 ELSE 1)
\* No event before entries[i] carries a name.
LeadingUnnamed(es, i) == \A j \in 1..(i - 1) : Unnamed(es[j])

\* C24 (finished-run bookkeeping): every run stored under scenarios[n] has
\* name n; a run enters the collection once (the runs held grow by one
\* exactly when an event opens a run, and by nothing else); every call of
\* analyze_entries starts with no run open, so the unnamed events at the
\* start of a file change no run of the files before it, and the first named
\* event of a file opens a run whatever the last run of the file before was.
C24_FinishedRunBookkeeping ==
    /\ [](\A id \in RunIds(scenarios) : RunAt(scenarios, id).name = id[1])
    /\ [][(pc = "files" /\ pc' = "entries") =>
            /\ current_scenario' = None
            /\ scenario_analysis' = None
            /\ scenarios' = scenarios]_vars
    /\ [][(AtEvent /\ pos' = pos + 1 /\ Unnamed(NextEvent)
           /\ LeadingUnnamed(entries, pos)) =>
            /\ scenarios' = scenarios
            /\ scenario_analysis' = None]_vars
    /\ [][(pc = "entries" /\ pc' \in {"entries", "files"}) =>
            RunsHeld(scenarios', scenario_analysis')
              = RunsHeld(scenarios, scenario_analysis)
                + (IF AtEvent /\ pos \in RunStarts(entries) THEN 1 ELSE 0)]_vars

\* The first file left one run under A; the second file starts with an
\* unnamed warning, which has been processed: no run is open and the run
\* under A has no warning.
C24_Witness_SecondFileUnnamedStart ==
    /\ pc = "entries"
    /\ nfiles = 1
    /\ pos = 2
    /\ Unnamed(entries[1])
    /\ entries[1].level = "WARN"
    /\ scenario_analysis = None
    /\ DOMAIN scenarios = {Str("A")}
    /\ Len(scenarios[Str("A")]) = 1
    /\ scenarios[Str("A")][1].warnings = <<>>

\* The names under which a run has failed.
FailedScenarios ==
    {id[1] : id \in {r \in RunIds(scenarios) : RunAt(scenarios, r).passed = "False"}}

\* C25 (recommendations consistency): in the analysis main() reports,
\* get_recommendations gives the single entry "All tests passed! ..." only
\* when no run has failed, and when a run has failed it gives at least one
\* recommendation that names a scenario with a failed run.
C25_RecommendationsConsistency ==
    pc \in {"applied", "exited"} =>
        /\ get_recommendations(scenarios) = {AllTestsPassed}
              => FailedScenarios = {}
        /\ FailedScenarios # {}
              => \E r \in get_recommendations(scenarios) :
                    r.scenario \in FailedScenarios

\* The checks of the report that did not pass, by their place in the list.
FailedAt == {i \in DOMAIN report.thresholds.checks : ~CheckAt(i).passed}

\* C26 (PQ report verdict consistency): in every report, thresholds.passed +
\* thresholds.failed = thresholds.total = the number of emitted checks,
\* summary.failed_checks holds exactly the metrics of the checks with
\* passed = false, and status is "pass" exactly when thresholds.failed = 0,
\* also when no check was emitted.
C26_ReportVerdictConsistency ==
    Reported =>
        LET t == report.thresholds
            failed_checks == report.summary.failed_checks
        IN  /\ t.total = Len(t.checks)
            /\ t.passed + t.failed = t.total
            /\ t.failed = Cardinality(FailedAt)
            /\ Len(failed_checks) = t.failed
            /\ {failed_checks[i] : i \in DOMAIN failed_checks}
                  = {CheckAt(i).metric : i \in FailedAt}
            /\ report.status \in {"pass", "fail"}
            /\ report.status = "pass" <=> t.failed = 0

\* A report without any check: the policy declares the invite bound only
\* and the log holds no sample and no counter.
C26_Witness_NoCheck ==
    /\ Reported
    /\ pq.thresholds = PQInviteOnly
    /\ report.thresholds.total = 0
    /\ report.thresholds.checks = <<>>
    /\ report.status = "pass"

\* The categories whose operation has no latency sample.
WithoutSamples == {c \in CategoryOps : pq.operations[c.slot].latencies = <<>>}

\* C27 (operations without samples): for a category whose operation has no
\* latency sample the report still holds the checks of the declared latency
\* and throughput bounds, evaluated on the all-zero statistics: the p99
\* check has actual 0 and passed, the throughput check has actual 0 and,
\* when throughput_min > 0, failed, and then the report's status is "fail"
\* whatever the other operations did.
C27_OperationsWithoutSamples ==
    Reported =>
        \A c \in WithoutSamples :
            LET th == PolicyOf(c.category) IN
            /\ DictHas(th, "latency_p99_us") =>
                  /\ ChecksNamed(c.category \o "_latency_p99_us") # {}
                  /\ \A i \in ChecksNamed(c.category \o "_latency_p99_us") :
                        /\ CheckAt(i).actual = 0
                        /\ CheckAt(i).passed
            /\ DictHas(th, "throughput_min") =>
                  /\ ChecksNamed(c.category \o "_throughput") # {}
                  /\ \A i \in ChecksNamed(c.category \o "_throughput") :
                        /\ CheckAt(i).actual.num = 0
                        /\ DictGet(th, "throughput_min") > 0 => ~CheckAt(i).passed
                  /\ DictGet(th, "throughput_min") > 0 => report.status = "fail"

\* The baseline stream under the default policy: both signature checks
\* passed, no verification was observed, the verification p99 check passed,
\* its throughput check failed and the report's status is "fail".
C27_Witness_BaselineFails ==
    /\ Reported
    /\ pqFiles = << <<BaselineSummary, BaselineCompletion>> >>
    /\ pq.thresholds = DEFAULT_THRESHOLDS
    /\ pq.operations.verify.latencies = <<>>
    /\ \A i \in ChecksNamed("signature_latency_p99_us") : CheckAt(i).passed
    /\ \A i \in ChecksNamed("signature_throughput") : CheckAt(i).passed
    /\ \E i \in ChecksNamed("verification_latency_p99_us") : CheckAt(i).passed
    /\ \E i \in ChecksNamed("verification_throughput") : ~CheckAt(i).passed
    /\ report.status = "fail"
=============================================================================
